---- MODULE Spec2Model ----
(***************************************************************************)
(* A model of the cluster commands of the SLATE API server                 *)
(* (src/src/ClusterCommands.cpp): the request handlers, the bootstrap      *)
(* sequence of createCluster and the deletion cascade of                   *)
(* internal::deleteCluster, over an abstract PersistentStore and an        *)
(* abstract kubectl/helm whose answers are inputs of the actions.          *)
(*                                                                         *)
(* Strings whose content the code inspects (names, ids) are sequences of   *)
(* tokens: <<"cluster_", "A">> is the string "cluster_A", <<"a","/","b">>  *)
(* the string "a/b".                                                       *)
(***************************************************************************)
EXTENDS Integers, Sequences, FiniteSets, TLC

VARIABLES
    clusters,   \* the store's cluster table: id -> record
    instances,  \* the store's application instance records
    secrets,    \* the store's secret records
    access,     \* the store's Group<->Cluster grants: <<group id or wildcard, cluster id>>
    apps,       \* the store's allow-list: <<group, cluster, application>> as written
    reach,      \* the reachability cache: cluster id -> TRUE | FALSE, where cached
    locations,  \* the store's cluster locations: cluster id -> sequence of <<lat, lon>>
    rq,         \* the request slots: the handler running in each and its locals
    \* test/DBServer.cpp, the test server that hands out ports, databases and namespaces:
    soManyDynamos,         \* the table port -> process handle, as a set of entries
    helmLock,              \* the mutex around helmHandle: its holder
    launcherLock,          \* the mutex around the sockets to the launcher: its holder
    helmHandle,            \* the process handle of the helm server
    namespaceIndex,        \* the number of the next namespace
    parent_output_socket,  \* datagrams sent to the launcher and not yet received by it
    parent_input_socket,   \* datagrams sent by the launcher and not yet received
    launcher,              \* the launcher child process: its position and its locals
    th,                    \* the test server's handlers: position and locals of each
    reservations           \* history: port -> allocatePort returns since its last erase

dbserver == <<soManyDynamos, helmLock, launcherLock, helmHandle, namespaceIndex,
              parent_output_socket, parent_input_socket, launcher, th, reservations>>
vars == <<clusters, instances, secrets, access, apps, reach, locations, rq, dbserver>>
store == <<clusters, instances, secrets, access, apps, reach, locations>>

----------------------------------------------------------------------------
(* test/DBServer.cpp: the state of main() once the HTTP server is running. *)
(* The API server's specifications leave the test server in this state.    *)

(* minPort and maxPort: the source has maxPort = 53000 = minPort + 999;    *)
(* the model keeps minPort and takes PortCount ports.                      *)
minPort == 52001
PortCount == 2
maxPort == minPort + PortCount
Ports == minPort..(maxPort - 1)

(* ProcessHandle: a child's pid; the empty handle has pid 0 and is false.  *)
NoPid == 0
Workers == {"h1", "h2"}
NoOwner == "nobody"

Resting ==
    [pc |-> "idle", op |-> "none", port |-> 0, dyn |-> NoPid, msgSize |-> 0, config |-> 0,
     status |-> 0, body |-> 0, got |-> <<>>]

LauncherWaiting == [pc |-> "wait", config |-> 0, sent |-> 0, for |-> NoOwner]

InitDBServer ==
    /\ soManyDynamos = {}
    /\ helmLock = NoOwner
    /\ launcherLock = NoOwner
    /\ helmHandle = NoPid
    /\ namespaceIndex = 0
    /\ parent_output_socket = <<>>
    /\ parent_input_socket = <<>>
    /\ launcher = LauncherWaiting
    /\ th = [h \in Workers |-> Resting]
    /\ reservations = [p \in Ports |-> 0]

----------------------------------------------------------------------------
(* Entities.cpp: the id prefixes; PersistentStore: the wildcard.           *)

clusterIDPrefix == "cluster_"
groupIDPrefix == "group_"
wildcard == <<"*">>
wildcardName == <<"<all>">>

(* std::string::find(prefix)==0 and find(ch)!=npos on token strings.       *)
StartsWith(s, prefix) == Len(s) >= 1 /\ s[1] = prefix
Contains(s, ch) == \E i \in 1..Len(s) : s[i] = ch

----------------------------------------------------------------------------
(* The population: users, groups and memberships do not change here (the   *)
(* user and group commands are not part of the cluster commands).          *)

NoUser == <<>>
Admin == <<"user_", "admin">>
Alice == <<"user_", "alice">>
Bob == <<"user_", "bob">>
Users == {Admin, Alice, Bob}
IsAdmin(u) == u = Admin

G1 == <<"group_", "1">>
G2 == <<"group_", "2">>
Groups == {G1, G2}
GroupName(g) == IF g = G1 THEN <<"atlas">> ELSE <<"cms">>
Membership == {<<Alice, G1>>, <<Bob, G2>>}

(* Tokens a request may carry: one per user, an unknown one, none at all.  *)
TokenOf(u) == <<"token", u[2]>>
NoToken == <<>>
BogusToken == <<"token", "00112233">>
Tokens == {TokenOf(u) : u \in Users} \cup {NoToken, BogusToken}

ClusterA == <<"cluster_", "A">>
ClusterB == <<"cluster_", "B">>
KnownClusters == {ClusterA, ClusterB}

(* IDGenerator::generateClusterID never runs out of ids; here a            *)
(* registration is given any id that no cluster has, of those of the two   *)
(* known clusters and MaxNewClusters more.                                 *)
MaxNewClusters == 1
ClusterIds == KnownClusters \cup {<<"cluster_", ToString(k)>> : k \in 1..MaxNewClusters}
NoCluster == <<>>
NoGroup == <<>>

----------------------------------------------------------------------------
(* PersistentStore and authenticateUser, whose code is not in src/.        *)

authenticateUser(token) ==
    IF \E u \in Users : TokenOf(u) = token
    THEN CHOOSE u \in Users : TokenOf(u) = token
    ELSE NoUser

userInGroup(u, g) == <<u, g>> \in Membership

findGroupByName(name) ==
    IF \E g \in Groups : GroupName(g) = name
    THEN CHOOSE g \in Groups : GroupName(g) = name
    ELSE NoGroup

findGroupByID(id) == IF id \in Groups THEN id ELSE NoGroup

(* getGroup accepts an id or a name.                                       *)
getGroup(ref) == IF StartsWith(ref, groupIDPrefix) THEN findGroupByID(ref)
                 ELSE findGroupByName(ref)

findClusterByName(cl, name) ==
    IF \E id \in DOMAIN cl : cl[id].name = name
    THEN CHOOSE id \in DOMAIN cl : cl[id].name = name
    ELSE NoCluster

(* getCluster accepts an id or a name.                                     *)
getCluster(cl, ref) == IF ref \in DOMAIN cl THEN ref ELSE findClusterByName(cl, ref)

(* Every store write returns success or failure; a failed write changes    *)
(* nothing.                                                                *)
addCluster(cl, id, rec, ok) ==
    IF ok THEN [x \in DOMAIN cl \cup {id} |-> IF x = id THEN rec ELSE cl[x]] ELSE cl

removeCluster(cl, id, ok) ==
    IF ok THEN [x \in DOMAIN cl \ {id} |-> cl[x]] ELSE cl

storeUpdateCluster(cl, id, rec, ok) ==
    IF ok /\ id \in DOMAIN cl THEN [cl EXCEPT ![id] = rec] ELSE cl

addGroupToCluster(acc, g, c, ok) == IF ok THEN acc \cup {<<g, c>>} ELSE acc

removeGroupFromCluster(acc, g, c, ok) == IF ok THEN acc \ {<<g, c>>} ELSE acc

listgroupsAllowedOnCluster(acc, c) == {p[1] : p \in {q \in acc : q[2] = c}}

listClustersStore(cl) == DOMAIN cl

(* Clusters by Group: the clusters whose owning group is the one given.    *)
listClustersByGroup(cl, group) == {c \in DOMAIN cl : cl[c].owningGroup = group}

----------------------------------------------------------------------------
(* Request inputs.                                                         *)

NameN1 == <<"n1">>
NameN2 == <<"n2">>
NameSlash == <<"a", "/", "b">>
NamePrefixed == <<"cluster_", "x">>
UnknownRef == <<"some-cluster">>
UnknownGroupRef == <<"some-group">>
UnknownGroupId == <<"group_", "9">>

ClusterRefs == KnownClusters \cup {NameN1, NameN2, UnknownRef}
GroupRefs == Groups \cup {GroupName(g) : g \in Groups}
             \cup {wildcard, wildcardName, UnknownGroupRef, UnknownGroupId}

----------------------------------------------------------------------------
(* A request slot.  pc is the handler's position; status is the HTTP       *)
(* status of the response (0 while the handler runs); ncmd and nwrite      *)
(* count the kubectl/helm commands run and the store writes attempted by   *)
(* the request; fault records that one of its store writes failed, and    *)
(* overwritten that another update wrote the record the request works on.  *)

NoRec == <<>>
EmptyMap == <<>>

Blank == [pc |-> "idle", op |-> "none", user |-> NoUser, status |-> 0,
          body |-> <<>>, ncmd |-> 0, nwrite |-> 0, fault |-> FALSE,
          cluster |-> NoCluster, group |-> NoGroup, name |-> <<>>,
          useCache |-> FALSE, probe |-> NoRec, req |-> NoRec, check |-> NoRec,
          force |-> FALSE, rec |-> NoRec, failed |-> "none", expectedInstances |-> <<>>,
          delaySoFar |-> 0, npoll |-> 0, ready |-> FALSE, sawReady |-> FALSE,
          todo |-> <<>>, touched |-> {}, secq |-> <<>>, got |-> 0,
          stask |-> EmptyMap, ntask |-> EmptyMap, removed |-> FALSE,
          unclean |-> {}, overwritten |-> FALSE]

(* Two slots: two requests may be in the server at once.  Serial is the    *)
(* one slot used where requests arrive one after the other.                *)
Slots == {"r1", "r2"}
Serial == {"r1"}
Free(r) == rq[r].pc = "idle"
Finished(q) == q.pc = "done"

(* The slot of a handler that ran to its response in one step.             *)
Answer(op, token, cluster, group, out) ==
    [Blank EXCEPT !.pc = "done", !.op = op, !.user = authenticateUser(token),
                  !.cluster = cluster, !.group = group,
                  !.status = out.status, !.body = out.body,
                  !.ncmd = out.ncmd, !.nwrite = out.nwrite, !.fault = out.fault]

Out(status) == [status |-> status, body |-> <<>>, ncmd |-> 0, nwrite |-> 0, fault |-> FALSE]

(* The response leaves and the handler returns: the slot is free again.    *)
Reply(r) ==
    /\ Finished(rq[r])
    /\ UNCHANGED dbserver
    /\ rq' = [rq EXCEPT ![r] = Blank]
    /\ UNCHANGED store

----------------------------------------------------------------------------
(* listClusterAllowedgroups, grantGroupClusterAccess,                      *)
(* revokeGroupClusterAccess.                                               *)

(* A variant that lists the stored grants only.                            *)
AllowedItemsStoredOnly(cl, acc, cluster) ==
    LET groupIDs == listgroupsAllowedOnCluster(acc, cluster)
        valid == {g \in groupIDs : findGroupByID(g) # NoGroup}
    IN IF groupIDs = {wildcard}
       THEN [e \in {<<wildcard, wildcardName>>} |-> 1]
       ELSE [e \in {<<g, GroupName(g)>> : g \in valid} |-> 1]

(* A variant that appends the owning group whatever the stored grants.     *)
AllowedItemsOwnerAlways(cl, acc, cluster) ==
    LET groupIDs == listgroupsAllowedOnCluster(acc, cluster)
        owner == cl[cluster].owningGroup
        valid == {g \in groupIDs \cup {owner} : findGroupByID(g) # NoGroup}
    IN [e \in {<<g, GroupName(g)>> : g \in valid} |->
           (IF e[1] \in groupIDs THEN 1 ELSE 0) + (IF e[1] = owner THEN 1 ELSE 0)]

(* The items of the listing as a bag: <<id, name>> -> number of entries.   *)
AllowedItems(cl, acc, cluster) ==
    LET groupIDs == listgroupsAllowedOnCluster(acc, cluster)
        owner == cl[cluster].owningGroup
        valid == {g \in groupIDs \cup {owner} : findGroupByID(g) # NoGroup}
    IN IF groupIDs = {wildcard}
       THEN [e \in {<<wildcard, wildcardName>>} |-> 1]
       ELSE [e \in {<<g, GroupName(g)>> : g \in valid} |->
                (IF e[1] \in groupIDs THEN 1 ELSE 0) + (IF e[1] = owner THEN 1 ELSE 0)]

listClusterAllowedgroups(token, clusterID, cl, acc) ==
    LET user == authenticateUser(token)
        cluster == getCluster(cl, clusterID)
    IN IF user = NoUser THEN Out(403)
       ELSE IF cluster = NoCluster THEN Out(404)
       ELSE [Out(200) EXCEPT !.body = AllowedItems(cl, acc, cluster)]

(* A variant that turns down a grant that is already stored.               *)
grantGroupClusterAccessOnce(token, clusterID, groupID, ok, cl, acc) ==
    LET user == authenticateUser(token)
        cluster == getCluster(cl, clusterID)
        group == getGroup(groupID)
        wrote(g) == IF <<g, cluster>> \in acc THEN Out(400) @@ [access |-> acc]
                    ELSE [Out(IF ok THEN 200 ELSE 500) EXCEPT !.nwrite = 1, !.fault = ~ok]
                           @@ [access |-> addGroupToCluster(acc, g, cluster, ok)]
        kept(status) == Out(status) @@ [access |-> acc]
    IN IF user = NoUser THEN kept(403)
       ELSE IF cluster = NoCluster THEN kept(404)
       ELSE IF ~IsAdmin(user) /\ ~userInGroup(user, cl[cluster].owningGroup) THEN kept(403)
       ELSE IF groupID = wildcard \/ groupID = wildcardName THEN wrote(wildcard)
       ELSE IF group = NoGroup THEN kept(404)
       ELSE IF group = cl[cluster].owningGroup THEN kept(200)
       ELSE wrote(group)

(* A variant that records a grant to the owning group like any other.      *)
grantGroupClusterAccessRecordsOwner(token, clusterID, groupID, ok, cl, acc) ==
    LET user == authenticateUser(token)
        cluster == getCluster(cl, clusterID)
        group == getGroup(groupID)
        wrote(g) == [Out(IF ok THEN 200 ELSE 500) EXCEPT !.nwrite = 1, !.fault = ~ok]
                      @@ [access |-> addGroupToCluster(acc, g, cluster, ok)]
        kept(status) == Out(status) @@ [access |-> acc]
    IN IF user = NoUser THEN kept(403)
       ELSE IF cluster = NoCluster THEN kept(404)
       ELSE IF ~IsAdmin(user) /\ ~userInGroup(user, cl[cluster].owningGroup) THEN kept(403)
       ELSE IF groupID = wildcard \/ groupID = wildcardName THEN wrote(wildcard)
       ELSE IF group = NoGroup THEN kept(404)
       ELSE wrote(group)

grantGroupClusterAccess(token, clusterID, groupID, ok, cl, acc) ==
    LET user == authenticateUser(token)
        cluster == getCluster(cl, clusterID)
        group == getGroup(groupID)
        wrote(g) == [Out(IF ok THEN 200 ELSE 500) EXCEPT !.nwrite = 1, !.fault = ~ok]
                      @@ [access |-> addGroupToCluster(acc, g, cluster, ok)]
        kept(status) == Out(status) @@ [access |-> acc]
    IN IF user = NoUser THEN kept(403)
       ELSE IF cluster = NoCluster THEN kept(404)
       ELSE IF ~IsAdmin(user) /\ ~userInGroup(user, cl[cluster].owningGroup) THEN kept(403)
       ELSE IF groupID = wildcard \/ groupID = wildcardName THEN wrote(wildcard)
       ELSE IF group = NoGroup THEN kept(404)
       ELSE IF group = cl[cluster].owningGroup THEN kept(200)
       ELSE wrote(group)

(* A variant that looks the cluster up before it authenticates.            *)
revokeGroupClusterAccessLookupFirst(token, clusterID, groupID, ok, cl, acc) ==
    LET user == authenticateUser(token)
        cluster == getCluster(cl, clusterID)
        group == getGroup(groupID)
        wrote(g) == [Out(IF ok THEN 200 ELSE 500) EXCEPT !.nwrite = 1, !.fault = ~ok]
                      @@ [access |-> removeGroupFromCluster(acc, g, cluster, ok)]
        kept(status) == Out(status) @@ [access |-> acc]
    IN IF cluster = NoCluster THEN kept(404)
       ELSE IF user = NoUser THEN kept(403)
       ELSE IF ~IsAdmin(user) /\ ~userInGroup(user, cl[cluster].owningGroup) THEN kept(403)
       ELSE IF groupID = wildcard \/ groupID = wildcardName THEN wrote(wildcard)
       ELSE IF group = NoGroup THEN kept(404)
       ELSE IF group = cl[cluster].owningGroup THEN kept(400)
       ELSE wrote(group)

(* A variant that lets the owning group be revoked like any other.         *)
revokeGroupClusterAccessOwnerToo(token, clusterID, groupID, ok, cl, acc) ==
    LET user == authenticateUser(token)
        cluster == getCluster(cl, clusterID)
        group == getGroup(groupID)
        wrote(g) == [Out(IF ok THEN 200 ELSE 500) EXCEPT !.nwrite = 1, !.fault = ~ok]
                      @@ [access |-> removeGroupFromCluster(acc, g, cluster, ok)]
        kept(status) == Out(status) @@ [access |-> acc]
    IN IF user = NoUser THEN kept(403)
       ELSE IF cluster = NoCluster THEN kept(404)
       ELSE IF ~IsAdmin(user) /\ ~userInGroup(user, cl[cluster].owningGroup) THEN kept(403)
       ELSE IF groupID = wildcard \/ groupID = wildcardName THEN wrote(wildcard)
       ELSE IF group = NoGroup THEN kept(404)
       ELSE wrote(group)

(* A variant that looks the group up before it checks the requester.       *)
revokeGroupClusterAccessGroupFirst(token, clusterID, groupID, ok, cl, acc) ==
    LET user == authenticateUser(token)
        cluster == getCluster(cl, clusterID)
        group == getGroup(groupID)
        wrote(g) == [Out(IF ok THEN 200 ELSE 500) EXCEPT !.nwrite = 1, !.fault = ~ok]
                      @@ [access |-> removeGroupFromCluster(acc, g, cluster, ok)]
        kept(status) == Out(status) @@ [access |-> acc]
    IN IF user = NoUser THEN kept(403)
       ELSE IF cluster = NoCluster THEN kept(404)
       ELSE IF groupID # wildcard /\ groupID # wildcardName /\ group = NoGroup THEN kept(404)
       ELSE IF ~IsAdmin(user) /\ ~userInGroup(user, cl[cluster].owningGroup) THEN kept(403)
       ELSE IF groupID = wildcard \/ groupID = wildcardName THEN wrote(wildcard)
       ELSE IF group = cl[cluster].owningGroup THEN kept(400)
       ELSE wrote(group)

revokeGroupClusterAccess(token, clusterID, groupID, ok, cl, acc) ==
    LET user == authenticateUser(token)
        cluster == getCluster(cl, clusterID)
        group == getGroup(groupID)
        wrote(g) == [Out(IF ok THEN 200 ELSE 500) EXCEPT !.nwrite = 1, !.fault = ~ok]
                      @@ [access |-> removeGroupFromCluster(acc, g, cluster, ok)]
        kept(status) == Out(status) @@ [access |-> acc]
    IN IF user = NoUser THEN kept(403)
       ELSE IF cluster = NoCluster THEN kept(404)
       ELSE IF ~IsAdmin(user) /\ ~userInGroup(user, cl[cluster].owningGroup) THEN kept(403)
       ELSE IF groupID = wildcard \/ groupID = wildcardName THEN wrote(wildcard)
       ELSE IF group = NoGroup THEN kept(404)
       ELSE IF group = cl[cluster].owningGroup THEN kept(400)
       ELSE wrote(group)

(* The group a request names: the wildcard, a group, or none.              *)
TargetGroup(groupID) ==
    IF groupID = wildcard \/ groupID = wildcardName THEN wildcard ELSE getGroup(groupID)

ListAllowed(r, tokens, refs) ==
    /\ Free(r)
    /\ \E token \in tokens, clusterID \in refs :
        LET out == listClusterAllowedgroups(token, clusterID, clusters, access)
        IN /\ UNCHANGED dbserver
           /\ rq' = [rq EXCEPT ![r] = Answer("listAllowed", token,
                                              getCluster(clusters, clusterID), NoGroup, out)]
           /\ UNCHANGED store

GrantAccess(r, tokens, refs, grefs) ==
    /\ Free(r)
    /\ \E token \in tokens, clusterID \in refs, groupID \in grefs, ok \in BOOLEAN :
        LET out == grantGroupClusterAccess(token, clusterID, groupID, ok, clusters, access)
        IN /\ access' = out.access
           /\ UNCHANGED dbserver
           /\ rq' = [rq EXCEPT ![r] = Answer("grant", token, getCluster(clusters, clusterID),
                                              TargetGroup(groupID), out)]
           /\ UNCHANGED <<clusters, instances, secrets, apps, reach, locations>>

(* A variant in which a revocation also removes what the group holds on   *)
(* the cluster.                                                            *)
RevokeAccessCascading(r, tokens, refs, grefs) ==
    /\ Free(r)
    /\ \E token \in tokens, clusterID \in refs, groupID \in grefs, ok \in BOOLEAN :
        LET out == revokeGroupClusterAccess(token, clusterID, groupID, ok, clusters, access)
            cluster == getCluster(clusters, clusterID)
            group == TargetGroup(groupID)
            gone(x, g) == out.status = 200 /\ x.cluster = cluster /\ g = group
        IN /\ access' = out.access
           /\ instances' = {i \in instances : ~gone(i, i.owningGroup)}
           /\ secrets' = {x \in secrets : ~gone(x, x.group)}
           /\ UNCHANGED dbserver
           /\ rq' = [rq EXCEPT ![r] = Answer("revoke", token, cluster, group, out)]
           /\ UNCHANGED <<clusters, apps, reach, locations>>

RevokeAccess(r, tokens, refs, grefs) ==
    /\ Free(r)
    /\ \E token \in tokens, clusterID \in refs, groupID \in grefs, ok \in BOOLEAN :
        LET out == revokeGroupClusterAccess(token, clusterID, groupID, ok, clusters, access)
        IN /\ access' = out.access
           /\ UNCHANGED dbserver
           /\ rq' = [rq EXCEPT ![r] = Answer("revoke", token, getCluster(clusters, clusterID),
                                              TargetGroup(groupID), out)]
           /\ UNCHANGED <<clusters, instances, secrets, apps, reach, locations>>

----------------------------------------------------------------------------
(* createCluster: the request body, the kubeconfig and the answers of      *)
(* kubectl and helm.                                                       *)

SlateSystem == <<"slate-system">>
OtherNs == <<"other-ns">>
Org1 == <<"org1">>
Org2 == <<"org2">>

(* A kubeconfig: whether it parses as YAML, and for each of its documents  *)
(* whether contexts[0].context.namespace is a scalar, and its value.       *)
Doc(has, ns) == [hasNs |-> has, ns |-> ns]
KubeGood == [parses |-> TRUE, docs |-> <<Doc(TRUE, SlateSystem)>>]
KubeSecondDoc == [parses |-> TRUE, docs |-> <<Doc(FALSE, <<>>), Doc(TRUE, OtherNs)>>]
KubeEmptyNs == [parses |-> TRUE, docs |-> <<Doc(TRUE, <<>>), Doc(TRUE, OtherNs)>>]
KubeNoNs == [parses |-> TRUE, docs |-> <<Doc(FALSE, <<>>)>>]
KubeBad == [parses |-> FALSE, docs |-> <<>>]
Kubeconfigs == {KubeGood, KubeSecondDoc, KubeEmptyNs, KubeNoNs, KubeBad}

(* Lines 123-132: the namespace of the first document that has one.        *)
RECURSIVE FirstNamespace(_)
FirstNamespace(docs) ==
    IF docs = <<>> THEN <<>>
    ELSE IF Head(docs).hasNs THEN Head(docs).ns
    ELSE FirstNamespace(Tail(docs))

CreateNames == {NameN1, NameN2, NameSlash, NamePrefixed}
CreateGroupRefs == Groups \cup {GroupName(G1), UnknownGroupRef, UnknownGroupId}

(* wellFormed: the body is JSON with every field present and a string.     *)
CreateBodies ==
    [wellFormed : BOOLEAN, name : CreateNames, group : CreateGroupRefs,
     owningOrganization : {Org1}, kubeconfig : Kubeconfigs]

(* `kubectl get serviceaccounts`: the names in the output.                 *)
MyDefault == <<"my-", "default">>
ServiceAccountNames == {<<"default">>, SlateSystem, OtherNs, MyDefault}
ExitCodes == {0, 1}

(* output.find("default")!=npos on the whole output.                       *)
MentionsDefault(names) == \E n \in names : Contains(n, "default")

(* `kubectl describe serviceaccount`: the lines of the output, in columns. *)
DescribeOutputs ==
    { <<>>,
      << <<"Name:", SlateSystem>>, <<"Namespace:", SlateSystem>> >>,
      << <<"Namespace:", OtherNs>> >>,
      << <<"Namespace:", OtherNs>>, <<"Namespace:", SlateSystem>> >>,
      << <<"Namespace:", SlateSystem, "extra">> >>,
      << <<"Namespace:", SlateSystem>>, <<"Namespace:", OtherNs>> >> }

(* Lines 210-224: some two-column line says Namespace: <systemNamespace>.  *)
NamespaceConfirmed(lines, systemNamespace) ==
    \E i \in 1..Len(lines) :
        /\ Len(lines[i]) = 2
        /\ lines[i][1] = "Namespace:"
        /\ lines[i][2] = systemNamespace

(* `helm init`: which messages stdout carries.  The warning text contains  *)
(* the text of `already`.                                                  *)
HelmMessages == {"has been installed", "is already installed", "Warning: already installed"}
FindsExpected(out) == "has been installed" \in out
FindsAlready(out) == "is already installed" \in out \/ "Warning: already installed" \in out
FindsWarning(out) == "Warning: already installed" \in out

DeploymentNames == {<<"tiller-deploy">>, <<"coredns">>}

----------------------------------------------------------------------------
(* `kubectl get pods`: lines of columns; the READY column is a string of   *)
(* characters.                                                             *)

DecimalDigits == <<"0", "1", "2", "3", "4", "5", "6", "7", "8", "9">>
Digit(c) ==
    IF \E i \in DOMAIN DecimalDigits : DecimalDigits[i] = c
    THEN (CHOOSE i \in DOMAIN DecimalDigits : DecimalDigits[i] = c) - 1
    ELSE -1

(* std::stoul is strtoul in base 10: white space is skipped, one sign is   *)
(* taken, and the digits that follow are the number; what comes after them *)
(* is not looked at. Without a digit there stoul throws. The white space   *)
(* is that of std::isspace in the C locale: space, horizontal tab, line    *)
(* feed, vertical tab (character 11, which has no escape in a string       *)
(* here and stands in VerticalTab as the character itself), form feed and  *)
(* carriage return.                                                        *)
VerticalTab == ""
WhiteSpace == {" ", "\t", "\n", VerticalTab, "\f", "\r"}
Signs == {"+", "-"}

RECURSIVE SkipWhiteSpace(_)
SkipWhiteSpace(s) ==
    IF s # <<>> /\ Head(s) \in WhiteSpace THEN SkipWhiteSpace(Tail(s)) ELSE s

AfterSign(s) == IF s # <<>> /\ Head(s) \in Signs THEN Tail(s) ELSE s

RECURSIVE LeadingValue(_, _)
LeadingValue(s, acc) ==
    IF s = <<>> \/ Digit(Head(s)) < 0 THEN acc
    ELSE LeadingValue(Tail(s), 10 * acc + Digit(Head(s)))

stoulThrows(s) ==
    LET digits == AfterSign(SkipWhiteSpace(s))
    IN digits = <<>> \/ Digit(Head(digits)) < 0

(* The unsigned long that stoul returns, as the integer of least magnitude *)
(* that is equal to it modulo 2^64: with a minus sign the number is        *)
(* negated as an unsigned long, so "-1", which is 2^64 - 1 in the code, is *)
(* -1 here. Two such integers are equal when the unsigned longs are, and   *)
(* the unsigned long is greater than 0 when the integer is not 0. The      *)
(* strings here spell numbers far below 2^63; beyond 2^64 - 1 stoul throws *)
(* std::out_of_range.                                                      *)
stoul(s) ==
    LET blank == SkipWhiteSpace(s)
        magnitude == LeadingValue(AfterSign(blank), 0)
    IN IF blank # <<>> /\ Head(blank) = "-" THEN 0 - magnitude ELSE magnitude

(* std::string::find('/'): the first position, 0-based; -1 for npos.       *)
FindSlash(s) ==
    IF \E i \in 1..Len(s) : s[i] = "/"
    THEN (CHOOSE i \in 1..Len(s) : s[i] = "/" /\ \A j \in 1..(i - 1) : s[j] # "/") - 1
    ELSE -1

TillerPod == <<"tiller-deploy", "-5c6b9">>
TillerPodOld == <<"tiller-deploy", "-7d4f8">>
PodReady == << TillerPod, <<"1", "/", "1">>, <<"Running">> >>
PodLines ==
    { PodReady,
      << TillerPod, <<"0", "/", "1">>, <<"Pending">> >>,
      << TillerPod, <<"0", "/", "0">>, <<"Pending">> >>,
      << TillerPod, <<"/", "1">>, <<"Running">> >>,
      << TillerPod, <<"1", "/">>, <<"Running">> >>,
      << TillerPod, <<"x", "/", "1">>, <<"Running">> >>,
      << TillerPod, <<"1", "/", "1">> >>,
      << TillerPod, <<"3", "/", "3">>, <<"Running">> >>,
      << TillerPodOld, <<"1", "/", "1">>, <<"Running">> >>,
      << TillerPodOld, <<"0", "/", "1">>, <<"Terminating">> >>,
      << <<"coredns">>, <<"1", "/", "1">>, <<"Running">> >> }

(* A listing has one line for each pod it lists, at most MaxPodLines.      *)
MaxPodLines == 2
PodListings ==
    {lines \in UNION {[1..n -> PodLines] : n \in 0..MaxPodLines} :
        \A i, k \in DOMAIN lines : i # k => lines[i][1] # lines[k][1]}

(* Lines 284-306, one line: "skip" (continue), "stop" (break, not ready)   *)
(* or "ready" (tillerRunning=true; break).                                 *)
ScanPodLine(tokens) ==
    IF Len(tokens) < 3 THEN "skip"
    ELSE IF ~Contains(tokens[1], "tiller-deploy") THEN "skip"
    ELSE LET slashPos == FindSlash(tokens[2])
             numers == SubSeq(tokens[2], 1, slashPos)
             denoms == SubSeq(tokens[2], slashPos + 2, Len(tokens[2]))
             numer == stoul(numers)
             denom == stoul(denoms)
         IN IF slashPos = -1 \/ slashPos = 0 \/ slashPos + 1 = Len(tokens[2]) THEN "stop"
            ELSE IF stoulThrows(numers) \/ stoulThrows(denoms) THEN "stop"
            ELSE IF numer # 0 /\ numer = denom THEN "ready"
            ELSE "skip"

(* What the listing says, whatever the scan makes of it: some pod whose    *)
(* name begins with tiller-deploy is N/N ready, N > 0.                     *)
ReportsReady(lines) ==
    \E i \in 1..Len(lines) :
        /\ Len(lines[i]) >= 2
        /\ StartsWith(lines[i][1], "tiller-deploy")
        /\ \E n \in 2..Len(DecimalDigits) : lines[i][2] = <<DecimalDigits[n], "/", DecimalDigits[n]>>

RECURSIVE TillerRunning(_)
TillerRunning(lines) ==
    IF lines = <<>> THEN FALSE
    ELSE LET verdict == ScanPodLine(Head(lines))
         IN IF verdict = "ready" THEN TRUE
            ELSE IF verdict = "stop" THEN FALSE
            ELSE TillerRunning(Tail(lines))

maxDelay == 120000
delay == 500

----------------------------------------------------------------------------
(* createCluster, lines 70-173: authentication, the body, the kubeconfig,  *)
(* the owning group, the name.  status 0: go on to store.addCluster.       *)

(* Lines 146-155: the owning group, named by id or by name.                 *)
OwningGroupOf(body) ==
    IF StartsWith(body.group, groupIDPrefix) THEN body.group ELSE findGroupByName(body.group)

(* A variant that does not ask the store whether the name is in use.       *)
createClusterChecksNameUnchecked(token, body, id, cl) ==
    LET user == authenticateUser(token)
        systemNamespace == FirstNamespace(body.kubeconfig.docs)
        owningGroup == OwningGroupOf(body)
        rec == [id |-> id, name |-> body.name, config |-> body.kubeconfig,
                owningGroup |-> owningGroup,
                owningOrganization |-> body.owningOrganization,
                systemNamespace |-> systemNamespace, valid |-> TRUE]
        stop(status) == [status |-> status, rec |-> NoRec]
    IN IF user = NoUser THEN stop(403)
       ELSE IF ~body.wellFormed THEN stop(400)
       ELSE IF ~body.kubeconfig.parses THEN stop(400)
       ELSE IF systemNamespace = <<>> THEN stop(400)
       ELSE IF ~StartsWith(body.group, groupIDPrefix) /\ owningGroup = NoGroup THEN stop(403)
       ELSE IF ~userInGroup(user, owningGroup) THEN stop(403)
       ELSE IF Contains(body.name, "/") THEN stop(400)
       ELSE IF StartsWith(body.name, clusterIDPrefix) THEN stop(400)
       ELSE [status |-> 0, rec |-> rec]

createClusterChecks(token, body, id, cl) ==
    LET user == authenticateUser(token)
        systemNamespace == FirstNamespace(body.kubeconfig.docs)
        owningGroup == OwningGroupOf(body)
        rec == [id |-> id, name |-> body.name, config |-> body.kubeconfig,
                owningGroup |-> owningGroup,
                owningOrganization |-> body.owningOrganization,
                systemNamespace |-> systemNamespace, valid |-> TRUE]
        stop(status) == [status |-> status, rec |-> NoRec]
    IN IF user = NoUser THEN stop(403)
       ELSE IF ~body.wellFormed THEN stop(400)
       ELSE IF ~body.kubeconfig.parses THEN stop(400)
       ELSE IF systemNamespace = <<>> THEN stop(400)
       ELSE IF ~StartsWith(body.group, groupIDPrefix) /\ owningGroup = NoGroup THEN stop(403)
       ELSE IF ~userInGroup(user, owningGroup) THEN stop(403)
       ELSE IF Contains(body.name, "/") THEN stop(400)
       ELSE IF StartsWith(body.name, clusterIDPrefix) THEN stop(400)
       ELSE IF findClusterByName(cl, body.name) # NoCluster THEN stop(400)
       ELSE [status |-> 0, rec |-> rec]

(* The record as the store keeps it (the id is the key).                   *)
Stored(rec) == [name |-> rec.name, config |-> rec.config, owningGroup |-> rec.owningGroup,
                owningOrganization |-> rec.owningOrganization,
                systemNamespace |-> rec.systemNamespace, valid |-> rec.valid]

(* A bootstrap step's verdict: the slot afterwards, and whether the step   *)
(* calls store.removeCluster on the new record.                            *)
GoOn(q, pc) == [slot |-> [q EXCEPT !.pc = pc, !.ncmd = @ + 1], remove |-> FALSE]
GiveUp(q, why, remove) ==
    [slot |-> [q EXCEPT !.pc = "done", !.status = 500, !.failed = why, !.ncmd = @ + 1],
     remove |-> remove]

(* Lines 175-201: the service accounts of the default namespace.           *)
createProbe(q, status, names) ==
    IF status # 0 \/ ~MentionsDefault(names) THEN GiveUp(q, "contact", TRUE)
    ELSE IF names = {} THEN GiveUp(q, "noServiceAccounts", TRUE)
    ELSE IF q.rec.systemNamespace \notin names THEN GiveUp(q, "noMatchingServiceAccount", FALSE)
    ELSE GoOn(q, "c_describe")

(* Lines 203-235: the service account's namespace, then updateCluster.     *)
createDescribe(q, status, lines) ==
    IF status # 0 THEN GiveUp(q, "describe", TRUE)
    ELSE IF ~NamespaceConfirmed(lines, q.rec.systemNamespace) THEN GiveUp(q, "namespace", TRUE)
    ELSE GoOn(q, "c_helm")

(* Lines 239-253: helm init.                                               *)
createHelmInit(q, status, out) ==
    IF status # 0 \/ (~FindsExpected(out) /\ ~FindsAlready(out)) THEN GiveUp(q, "helm", TRUE)
    ELSE IF FindsWarning(out) THEN GoOn(q, "c_deploy")
    ELSE GoOn(q, "c_poll")

(* Lines 253-272: tiller is said to be installed already: is it in our     *)
(* namespace?                                                              *)
createDeployments(q, status, names) ==
    IF status = 0 /\ <<"tiller-deploy">> \in names THEN GoOn(q, "c_poll")
    ELSE GiveUp(q, "tillerElsewhere", TRUE)

(* Lines 277-333: one turn of the readiness loop, and the response once    *)
(* the loop is left.                                                       *)
(* npoll counts the pod listings.                                          *)
Created(q, why) == [q EXCEPT !.pc = "done", !.status = 200, !.failed = why,
                             !.body = <<q.rec.id, q.rec.name>>, !.ncmd = @ + 1,
                             !.npoll = @ + 1]

(* A variant that compares the delay with the deadline by <= and so sleeps *)
(* once more.                                                              *)
createPollSleepsAtDeadline(q, status, lines) ==
    IF status # 0 THEN Created(q, "podListing")
    ELSE IF TillerRunning(lines) THEN [Created(q, "none") EXCEPT !.ready = TRUE]
    ELSE IF q.delaySoFar <= maxDelay
         THEN [q EXCEPT !.delaySoFar = @ + delay, !.ncmd = @ + 1, !.npoll = @ + 1]
         ELSE Created(q, "timeout")

createPoll(q, status, lines) ==
    IF status # 0 THEN Created(q, "podListing")
    ELSE IF TillerRunning(lines) THEN [Created(q, "none") EXCEPT !.ready = TRUE]
    ELSE IF q.delaySoFar < maxDelay
         THEN [q EXCEPT !.delaySoFar = @ + delay, !.ncmd = @ + 1, !.npoll = @ + 1]
         ELSE Created(q, "timeout")

InFlightIds == {rq[r].rec.id : r \in {x \in Slots : rq[x].rec # NoRec}}

(* Lines 70-166. The id is generated at line 137, after the checks of the  *)
(* token, the body and the kubeconfig; no answer depends on it. A request  *)
(* that is refused is answered whatever ids are left.                      *)
CreateCluster(r, tokens, bodies) ==
    /\ Free(r)
    /\ \E token \in tokens, body \in bodies :
        LET refusal == createClusterChecks(token, body, NoCluster, clusters).status
            q == [Blank EXCEPT !.op = "create", !.user = authenticateUser(token),
                               !.name = body.name, !.group = OwningGroupOf(body)]
        IN /\ UNCHANGED dbserver
           /\ IF refusal # 0
              THEN rq' = [rq EXCEPT ![r] = [q EXCEPT !.pc = "done", !.status = refusal]]
              ELSE \E id \in ClusterIds \ (DOMAIN clusters \cup InFlightIds) :
                      rq' = [rq EXCEPT ![r] =
                                [q EXCEPT !.pc = "c_add",
                                          !.rec = createClusterChecks(token, body, id,
                                                                      clusters).rec,
                                          !.cluster = id]]
           /\ UNCHANGED store

(* Lines 168-173: store.addCluster.                                        *)
CreateAdd(r) ==
    /\ rq[r].pc = "c_add"
    /\ \E ok \in BOOLEAN :
        /\ clusters' = addCluster(clusters, rq[r].rec.id, Stored(rq[r].rec), ok)
        /\ UNCHANGED dbserver
        /\ rq' = [rq EXCEPT ![r] =
                     IF ok THEN [@ EXCEPT !.pc = "c_probe", !.nwrite = @ + 1]
                     ELSE [@ EXCEPT !.pc = "done", !.status = 500, !.failed = "store",
                                    !.nwrite = @ + 1, !.fault = TRUE]]
        /\ UNCHANGED <<instances, secrets, access, apps, reach, locations>>

(* A bootstrap step and, where it gives up with one, its removeCluster.    *)
Bootstrap(r, res, ok) ==
    /\ clusters' = IF res.remove THEN removeCluster(clusters, rq[r].rec.id, ok) ELSE clusters
    /\ UNCHANGED dbserver
    /\ rq' = [rq EXCEPT ![r] =
                 IF res.remove
                 THEN [res.slot EXCEPT !.nwrite = @ + 1, !.fault = @ \/ ~ok]
                 ELSE res.slot]
    /\ UNCHANGED <<instances, secrets, access, apps, reach, locations>>

CreateProbe(r) ==
    /\ rq[r].pc = "c_probe"
    /\ \E status \in ExitCodes, names \in SUBSET ServiceAccountNames, ok \in BOOLEAN :
        /\ Bootstrap(r, createProbe(rq[r], status, names), ok)

(* The result of the updateCluster of line 235 is not looked at, and it    *)
(* writes the record addCluster wrote: it is taken to succeed.             *)
CreateDescribe(r) ==
    /\ rq[r].pc = "c_describe"
    /\ \E status \in ExitCodes, lines \in DescribeOutputs, ok \in BOOLEAN :
        /\ LET res == createDescribe(rq[r], status, lines)
           IN IF res.remove
              THEN Bootstrap(r, res, ok)
              ELSE /\ clusters' = storeUpdateCluster(clusters, rq[r].rec.id, Stored(rq[r].rec), TRUE)
                   /\ UNCHANGED dbserver
                   /\ rq' = [rq EXCEPT ![r] = [res.slot EXCEPT !.nwrite = @ + 1]]
                   /\ UNCHANGED <<instances, secrets, access, apps, reach, locations>>

CreateHelmInit(r) ==
    /\ rq[r].pc = "c_helm"
    /\ \E status \in ExitCodes, out \in SUBSET HelmMessages, ok \in BOOLEAN :
        /\ Bootstrap(r, createHelmInit(rq[r], status, out), ok)

CreateDeployments(r) ==
    /\ rq[r].pc = "c_deploy"
    /\ \E status \in ExitCodes, names \in SUBSET DeploymentNames, ok \in BOOLEAN :
        /\ Bootstrap(r, createDeployments(rq[r], status, names), ok)

(* One turn of the loop: kubectl exits with `status`; the lines of its      *)
(* output are read only when it exited with 0 (line 279).                  *)
CreatePoll(r, listings) ==
    /\ rq[r].pc = "c_poll"
    /\ \E status \in ExitCodes, lines \in listings :
        /\ status # 0 => lines = <<>>
        /\ UNCHANGED dbserver
        /\ rq' = [rq EXCEPT ![r] = [createPoll(rq[r], status, lines) EXCEPT
                                       !.sawReady = @ \/ (status = 0 /\ ReportsReady(lines))]]
        /\ UNCHANGED store

(* req.url_params.get("group"): a null pointer without the parameter, or  *)
(* its value; here the empty set, or the set of that one value.            *)
NoParameter == {}
GroupParameters == {NoParameter, {G1}, {G2}, {GroupName(G1)}}

(* listClusters, lines 24-68: the ids of the items, of all clusters or,    *)
(* with ?group, of those the store lists for that group.                   *)
listClusters(token, group, cl) ==
    IF authenticateUser(token) = NoUser THEN Out(403)
    ELSE IF group # NoParameter
    THEN [Out(200) EXCEPT !.body = listClustersByGroup(cl, CHOOSE g \in group : TRUE)]
    ELSE [Out(200) EXCEPT !.body = listClustersStore(cl)]

ListClusters(r, tokens, groups) ==
    /\ Free(r)
    /\ \E token \in tokens, group \in groups :
        /\ UNCHANGED dbserver
        /\ rq' = [rq EXCEPT ![r] = Answer("listClusters", token, NoCluster, NoGroup,
                                          listClusters(token, group, clusters))]
        /\ UNCHANGED store

----------------------------------------------------------------------------
(* Cluster registration on its own: requests arrive one after the other    *)
(* at a store that holds one cluster.                                      *)

NoRequests == [r \in Slots |-> Blank]

RecordB == [name |-> NameN2, config |-> KubeGood, owningGroup |-> G2,
            owningOrganization |-> Org1, systemNamespace |-> SlateSystem, valid |-> TRUE]

InitCreate ==
    /\ clusters = [c \in {ClusterB} |-> RecordB]
    /\ instances = {}
    /\ secrets = {}
    /\ access = {}
    /\ apps = {}
    /\ reach = <<>>
    /\ locations = <<>>
    /\ InitDBServer
    /\ rq = NoRequests

(* The requesters of this specification: a member of one group, the       *)
(* admin, who is in none, and the two kinds of requester without a user.   *)
CreateTokens == {TokenOf(Alice), TokenOf(Admin), NoToken, BogusToken}

NextCreate ==
    \E r \in Serial :
        \/ Reply(r)
        \/ CreateCluster(r, CreateTokens, CreateBodies)
        \/ CreateAdd(r)
        \/ CreateProbe(r)
        \/ CreateDescribe(r)
        \/ CreateHelmInit(r)
        \/ CreateDeployments(r)
        \/ CreatePoll(r, PodListings)
        \/ ListClusters(r, CreateTokens, GroupParameters)

SpecCreate == InitCreate /\ [][NextCreate]_vars

----------------------------------------------------------------------------
(* The cluster registrations that have been answered.                      *)
Registrations == {r \in Slots : rq[r].op = "create" /\ Finished(rq[r])}

(* C1: when a bootstrap step after the tentative addCluster fails (the     *)
(* service-account listing, the describe check, helm init, the Tiller      *)
(* readiness poll), the request fails and the tentative record is removed; *)
(* hence after a createCluster that did not return 200 no record with the  *)
(* generated id is in the store.  Stated for requests whose store writes   *)
(* all succeeded.                                                          *)
C1_FailedBootstrapRemovesRecord ==
    \A r \in Registrations :
        LET q == rq[r]
        IN (q.rec # NoRec /\ ~q.fault) =>
              /\ (q.failed # "none") => (q.status # 200 /\ q.rec.id \notin DOMAIN clusters)
              /\ (q.status # 200) => q.rec.id \notin DOMAIN clusters

C1_Witness ==
    \E r \in Registrations :
        /\ rq[r].failed = "noMatchingServiceAccount"
        /\ ~rq[r].fault
        /\ rq[r].nwrite = 1

(* C2: when no tiller-deploy pod ever reports N/N ready until the 120 s    *)
(* deadline, createCluster answers 500 and no later listClusters returns   *)
(* the cluster.                                                            *)
C2_TillerStuckFailsRegistration ==
    \A r \in Registrations :
        LET q == rq[r]
        IN (q.failed = "timeout" /\ ~q.sawReady) =>
              /\ q.status = 500
              /\ q.rec.id \notin listClustersStore(clusters)

C2_Witness ==
    \E r \in Registrations :
        /\ rq[r].failed = "timeout"
        /\ ~rq[r].sawReady
        /\ rq[r].delaySoFar = maxDelay

----------------------------------------------------------------------------
(* deleteCluster and internal::deleteCluster.                              *)

MaxInstances == 2
MaxSecrets == 2

InstanceId(k) == <<"instance_", ToString(k)>>
SecretId(k) == <<"secret_", ToString(k)>>
InstanceOnB == <<"instance_", "b">>
SecretOnB == <<"secret_", "b">>

(* The instances and secrets a store may hold on cluster A, and the one    *)
(* instance and one secret it holds on cluster B.                          *)
InstanceName(k) == <<"cms-app-", ToString(k)>>
SecretName(k) == <<"key-", ToString(k)>>
InstancesOfA ==
    {[id |-> InstanceId(k), name |-> InstanceName(k), cluster |-> ClusterA, owningGroup |-> G2] :
        k \in 1..MaxInstances}
SecretsOfA ==
    {[id |-> SecretId(k), name |-> SecretName(k), cluster |-> ClusterA, group |-> G2] :
        k \in 1..MaxSecrets}
InstancesOfB ==
    {[id |-> InstanceOnB, name |-> <<"atlas-app">>, cluster |-> ClusterB, owningGroup |-> G1]}
SecretsOfB ==
    {[id |-> SecretOnB, name |-> <<"key-b">>, cluster |-> ClusterB, group |-> G1]}

(* A listing of the store is a sequence of records. Nothing in src/ fixes  *)
(* the order in which the store lists them: a listing is any one of the    *)
(* orderings of the records, and these are the listings that the store can *)
(* give of the instances and of the secrets of a cluster.                  *)
RECURSIVE Orderings(_)
Orderings(set) ==
    IF set = {} THEN {<<>>}
    ELSE UNION {{<<x>> \o rest : rest \in Orderings(set \ {x})} : x \in set}

listApplicationInstancesOn(insts, cluster) == Orderings({i \in insts : i.cluster = cluster})
listSecretsOn(secs, cluster) == Orderings({x \in secs : x.cluster = cluster})
listgroups == Groups

(* A variant in which a helm failure keeps the store record even with      *)
(* force.                                                                  *)
deleteApplicationInstanceHelmFirst(insts, instance, force, helmOK, storeOK) ==
    IF ~helmOK THEN [instances |-> insts, result |-> "helm", wrote |-> FALSE]
    ELSE IF storeOK THEN [instances |-> insts \ {instance}, result |-> "", wrote |-> TRUE]
    ELSE [instances |-> insts, result |-> "database", wrote |-> TRUE]

(* internal::deleteApplicationInstance (not in src/): helm delete, then    *)
(* the store; with force the store record goes whatever helm said.  The    *)
(* result is "" on success.                                                *)
deleteApplicationInstance(insts, instance, force, helmOK, storeOK) ==
    IF ~helmOK /\ ~force THEN [instances |-> insts, result |-> "helm", wrote |-> FALSE]
    ELSE IF storeOK THEN [instances |-> insts \ {instance}, result |-> "", wrote |-> TRUE]
    ELSE [instances |-> insts, result |-> "database", wrote |-> TRUE]

(* internal::deleteSecret (not in src/): kubectl delete, then the store.   *)
deleteSecret(secs, secret, force, kubeOK, storeOK) ==
    IF ~kubeOK /\ ~force THEN [secrets |-> secs, result |-> "kubernetes", wrote |-> FALSE]
    ELSE IF storeOK THEN [secrets |-> secs \ {secret}, result |-> "", wrote |-> TRUE]
    ELSE [secrets |-> secs, result |-> "database", wrote |-> TRUE]

(* A variant that lets admins delete as the other cluster commands do.    *)
deleteClusterChecksAdminToo(token, clusterID, cl) ==
    LET user == authenticateUser(token)
        cluster == getCluster(cl, clusterID)
    IN IF user = NoUser THEN 403
       ELSE IF cluster = NoCluster THEN 404
       ELSE IF ~IsAdmin(user) /\ ~userInGroup(user, cl[cluster].owningGroup) THEN 403
       ELSE 0

(* deleteCluster, lines 374-389: 0 is "go on to the cascade".  The slot    *)
(* keeps the reference as received.                                        *)
deleteClusterChecks(token, clusterID, cl) ==
    LET user == authenticateUser(token)
        cluster == getCluster(cl, clusterID)
    IN IF user = NoUser THEN 403
       ELSE IF cluster = NoCluster THEN 404
       ELSE IF ~userInGroup(user, cl[cluster].owningGroup) THEN 403
       ELSE 0

(* Lines 401-402: the cascade starts from the instances as the store lists *)
(* them now.                                                               *)
deleteClusterBegin(q, cluster, force, listed) ==
    [q EXCEPT !.pc = "d_instances", !.cluster = cluster, !.force = force, !.todo = listed]

(* A variant that goes on to the next instance whatever the result.        *)
deleteClusterInstanceLenient(q, result) ==
    [q EXCEPT !.todo = Tail(@), !.touched = @ \cup {Head(q.todo)}]

(* Lines 403-409, one instance: its deletion has returned `result`.        *)
deleteClusterInstance(q, result) ==
    IF ~q.force /\ result # ""
    THEN [q EXCEPT !.pc = "done", !.status = 500, !.failed = "instance",
                   !.touched = @ \cup {Head(q.todo)}]
    ELSE [q EXCEPT !.todo = Tail(@), !.touched = @ \cup {Head(q.todo)}]

(* Variants: secrets dispatched while instances are left; no secret        *)
(* dispatched at all.                                                      *)
MayDispatchSecretsEarly(q) == q.pc = "d_instances"
deleteClusterDispatchSecretsNone(q, listed) ==
    [q EXCEPT !.pc = "d_secrets", !.secq = <<>>, !.got = 0, !.stask = EmptyMap]

(* Lines 411-421: after the last instance, one task per secret, in the     *)
(* order of the store's listing now.                                       *)
MayDispatchSecrets(q) == q.pc = "d_instances" /\ q.todo = <<>>
deleteClusterDispatchSecrets(q, listed) ==
    [q EXCEPT !.pc = "d_secrets", !.secq = listed, !.got = 0,
              !.stask = [x \in {listed[i] : i \in 1..Len(listed)} |-> "running"]]

(* A variant that goes on to the next future whatever the result.          *)
deleteClusterAwaitSecretLenient(q) == [q EXCEPT !.got = @ + 1]

(* Lines 424-428, one future: get() has returned `result`.  A return from  *)
(* here destroys the futures, which waits for the tasks still running.     *)
MayAwaitSecret(q) ==
    /\ q.pc = "d_secrets"
    /\ q.got < Len(q.secq)
    /\ q.stask[q.secq[q.got + 1]] # "running"
deleteClusterAwaitSecret(q) ==
    IF ~q.force /\ q.stask[q.secq[q.got + 1]] = "failed"
    THEN [q EXCEPT !.pc = "d_unwind", !.failed = "secret"]
    ELSE [q EXCEPT !.got = @ + 1]

AllSecretTasksOver(q) == \A x \in DOMAIN q.stask : q.stask[x] # "running"
AllNamespaceTasksOver(q) == \A g \in DOMAIN q.ntask : q.ntask[g] # "running"

(* Lines 430-443: after the last get(), one task per group.                *)
MayDispatchNamespaces(q) == q.pc = "d_secrets" /\ q.got = Len(q.secq)
deleteClusterDispatchNamespaces(q) ==
    [q EXCEPT !.pc = "d_namespaces", !.ntask = [g \in listgroups |-> "running"]]

(* A variant that reports an error when a namespace deletion failed.       *)
deleteClusterFinishStrict(q, ok) ==
    LET clean == ok /\ \A g \in DOMAIN q.ntask : q.ntask[g] = "ok"
    IN [q EXCEPT !.pc = "done", !.status = IF clean THEN 200 ELSE 500,
                 !.removed = ok, !.nwrite = @ + 1, !.fault = @ \/ ~ok]

(* Lines 444-450: after the last wait(), the record.                       *)
MayRemoveRecord(q) == q.pc = "d_namespaces" /\ AllNamespaceTasksOver(q)
deleteClusterFinish(q, ok) ==
    [q EXCEPT !.pc = "done", !.status = IF ok THEN 200 ELSE 500,
              !.failed = IF ok THEN "none" ELSE "store",
              !.removed = ok, !.nwrite = @ + 1, !.fault = @ \/ ~ok]

DeleteCluster(r, tokens, refs) ==
    /\ Free(r)
    /\ \E token \in tokens, clusterID \in refs, force \in BOOLEAN :
        LET status == deleteClusterChecks(token, clusterID, clusters)
            q == [Blank EXCEPT !.op = "delete", !.user = authenticateUser(token),
                               !.name = clusterID]
            cluster == getCluster(clusters, clusterID)
        IN /\ UNCHANGED dbserver
           /\ IF status = 0
              THEN \E listed \in listApplicationInstancesOn(instances, cluster) :
                      rq' = [rq EXCEPT ![r] = deleteClusterBegin(q, cluster, force, listed)]
              ELSE rq' = [rq EXCEPT ![r] = [q EXCEPT !.pc = "done", !.status = status]]
           /\ UNCHANGED store

DeleteInstance(r) ==
    /\ rq[r].pc = "d_instances"
    /\ \E helmOK \in BOOLEAN, storeOK \in BOOLEAN :
        /\ rq[r].todo # <<>>
        /\ LET del == deleteApplicationInstance(instances, Head(rq[r].todo), rq[r].force,
                                                helmOK, storeOK)
           IN /\ instances' = del.instances
              /\ UNCHANGED dbserver
              /\ rq' = [rq EXCEPT ![r] =
                           [deleteClusterInstance(rq[r], del.result) EXCEPT
                               !.ncmd = @ + 1,
                               !.nwrite = @ + (IF del.wrote THEN 1 ELSE 0),
                               !.fault = @ \/ del.result = "database",
                               !.unclean = IF helmOK THEN @ ELSE @ \cup {Head(rq[r].todo)}]]
        /\ UNCHANGED <<clusters, secrets, access, apps, reach, locations>>

DispatchSecrets(r) ==
    /\ MayDispatchSecrets(rq[r])
    /\ UNCHANGED dbserver
    /\ \E listed \in listSecretsOn(secrets, rq[r].cluster) :
          rq' = [rq EXCEPT ![r] = deleteClusterDispatchSecrets(rq[r], listed)]
    /\ UNCHANGED store

(* A variant that hands the caller's flag to the secret deletion.         *)
SecretTaskCallerFlag(r) ==
    \E x \in DOMAIN rq[r].stask, kubeOK \in BOOLEAN, storeOK \in BOOLEAN :
        /\ rq[r].stask[x] = "running"
        /\ LET del == deleteSecret(secrets, x, rq[r].force, kubeOK, storeOK)
           IN /\ secrets' = del.secrets
              /\ UNCHANGED dbserver
              /\ rq' = [rq EXCEPT ![r] =
                           [@ EXCEPT !.stask[x] = IF del.result = "" THEN "ok" ELSE "failed",
                                     !.ncmd = @ + 1,
                                     !.nwrite = @ + (IF del.wrote THEN 1 ELSE 0),
                                     !.fault = @ \/ del.result = "database",
                                     !.unclean = IF kubeOK THEN @ ELSE @ \cup {x}]]
        /\ UNCHANGED <<clusters, instances, access, apps, reach, locations>>

(* A secret task, line 420: always deleteSecret(store, secret, true).      *)
SecretTask(r) ==
    \E x \in DOMAIN rq[r].stask, kubeOK \in BOOLEAN, storeOK \in BOOLEAN :
        /\ rq[r].stask[x] = "running"
        /\ LET del == deleteSecret(secrets, x, TRUE, kubeOK, storeOK)
           IN /\ secrets' = del.secrets
              /\ UNCHANGED dbserver
              /\ rq' = [rq EXCEPT ![r] =
                           [@ EXCEPT !.stask[x] = IF del.result = "" THEN "ok" ELSE "failed",
                                     !.ncmd = @ + 1,
                                     !.nwrite = @ + (IF del.wrote THEN 1 ELSE 0),
                                     !.fault = @ \/ del.result = "database",
                                     !.unclean = IF kubeOK THEN @ ELSE @ \cup {x}]]
        /\ UNCHANGED <<clusters, instances, access, apps, reach, locations>>

AwaitSecret(r) ==
    /\ MayAwaitSecret(rq[r])
    /\ UNCHANGED dbserver
    /\ rq' = [rq EXCEPT ![r] = deleteClusterAwaitSecret(rq[r])]
    /\ UNCHANGED store

(* A variant whose early return does not wait for the tasks still         *)
(* running.                                                                *)
UnwindDetached(r) ==
    /\ rq[r].pc = "d_unwind"
    /\ UNCHANGED dbserver
    /\ rq' = [rq EXCEPT ![r] = [@ EXCEPT !.pc = "done", !.status = 500]]
    /\ UNCHANGED store

(* The early return of line 427 once the futures are destroyed.            *)
Unwind(r) ==
    /\ rq[r].pc = "d_unwind"
    /\ AllSecretTasksOver(rq[r])
    /\ UNCHANGED dbserver
    /\ rq' = [rq EXCEPT ![r] = [@ EXCEPT !.pc = "done", !.status = 500]]
    /\ UNCHANGED store

DispatchNamespaces(r) ==
    /\ MayDispatchNamespaces(rq[r])
    /\ UNCHANGED dbserver
    /\ rq' = [rq EXCEPT ![r] = deleteClusterDispatchNamespaces(rq[r])]
    /\ UNCHANGED store

(* A namespace task, lines 434-442: a failure is logged, nothing more.     *)
NamespaceTask(r) ==
    \E g \in DOMAIN rq[r].ntask, ok \in BOOLEAN :
        /\ rq[r].ntask[g] = "running"
        /\ UNCHANGED dbserver
        /\ rq' = [rq EXCEPT ![r] = [@ EXCEPT !.ntask[g] = IF ok THEN "ok" ELSE "failed",
                                             !.ncmd = @ + 1]]
        /\ UNCHANGED store

RemoveRecord(r) ==
    \E ok \in BOOLEAN :
        /\ MayRemoveRecord(rq[r])
        /\ clusters' = removeCluster(clusters, rq[r].cluster, ok)
        /\ UNCHANGED dbserver
        /\ rq' = [rq EXCEPT ![r] = deleteClusterFinish(rq[r], ok)]
        /\ UNCHANGED <<instances, secrets, access, apps, reach, locations>>

----------------------------------------------------------------------------
(* Cluster deletion on its own: requests arrive one after the other at a   *)
(* store that holds cluster A, owned by group 1, with its instances and    *)
(* secrets, and cluster B with one of each.                                *)

RecordA == [name |-> NameN1, config |-> KubeGood, owningGroup |-> G1,
            owningOrganization |-> Org1, systemNamespace |-> SlateSystem, valid |-> TRUE]

InitDelete ==
    /\ clusters = [c \in KnownClusters |-> IF c = ClusterA THEN RecordA ELSE RecordB]
    /\ instances = InstancesOfA \cup InstancesOfB
    /\ secrets = SecretsOfA \cup SecretsOfB
    /\ access = {<<G2, ClusterA>>}
    /\ apps = {}
    /\ reach = <<>>
    /\ locations = <<>>
    /\ InitDBServer
    /\ rq = NoRequests

(* The requests of this specification are about cluster A, by its name, or *)
(* about no cluster at all.                                                *)
DeleteRefs == {NameN1, UnknownRef}

NextDelete ==
    \E r \in Serial :
        \/ Reply(r)
        \/ DeleteCluster(r, Tokens, DeleteRefs)
        \/ DeleteInstance(r)
        \/ DispatchSecrets(r)
        \/ SecretTask(r)
        \/ AwaitSecret(r)
        \/ Unwind(r)
        \/ DispatchNamespaces(r)
        \/ NamespaceTask(r)
        \/ RemoveRecord(r)

SpecDelete == InitDelete /\ [][NextDelete]_vars

Deletions == {r \in Slots : rq[r].op = "delete" /\ rq[r].cluster # NoCluster}
InstancesLeftOn(cluster) == {i \in instances : i.cluster = cluster}
SecretsLeftOn(cluster) == {x \in secrets : x.cluster = cluster}

(* C4: in a cluster deletion, a secret deletion is dispatched or run only  *)
(* when no instance of the cluster is left to delete; a namespace deletion *)
(* is dispatched or run only when every dispatched secret deletion is      *)
(* over; the cluster record leaves the store only when a namespace         *)
(* deletion was dispatched for every group and each of them is over.       *)
C4_CascadeOrdering ==
    [][\A r \in Slots :
          LET q == rq[r]
              after == rq'[r]
          IN (q.op = "delete" /\ ~Finished(q)) =>
                /\ (after.stask # q.stask \/ secrets' # secrets) => q.todo = <<>>
                /\ (after.ntask # q.ntask) =>
                      /\ q.todo = <<>>
                      /\ q.got = Len(q.secq)
                      /\ AllSecretTasksOver(q)
                /\ (clusters' # clusters) =>
                      /\ DOMAIN q.ntask = listgroups
                      /\ AllNamespaceTasksOver(q)
                      /\ AllSecretTasksOver(q)
                      /\ q.todo = <<>>]_vars

C4_Witness ==
    \E r \in Deletions :
        /\ rq[r].removed
        /\ Cardinality(rq[r].touched) >= 2
        /\ Cardinality(DOMAIN rq[r].stask) >= 2
        /\ DOMAIN rq[r].ntask = listgroups

(* What a deletion of cluster C whose answer is 200 is to leave: no record *)
(* of C, no instance on C and no secret on C.                              *)
LeavesNothing(q) ==
    /\ q.cluster \notin DOMAIN clusters
    /\ InstancesLeftOn(q.cluster) = {}
    /\ SecretsLeftOn(q.cluster) = {}

(* deletion and no namespace deletion was dispatched.                      *)
C6_InstanceFailureAborts ==
    \A r \in Deletions :
        LET q == rq[r]
        IN (~q.force /\ q.touched \cap instances # {}) =>
              /\ Finished(q)
              /\ q.status = 500
              /\ q.cluster \in DOMAIN clusters
              /\ q.todo # <<>>
              /\ q.touched \cap instances = {Head(q.todo)}
              /\ \A k \in 2..Len(q.todo) :
                    q.todo[k] \notin q.touched /\ q.todo[k] \in instances
              /\ q.stask = EmptyMap
              /\ q.ntask = EmptyMap
              /\ q.ncmd = Cardinality(q.touched)

C6_Witness ==
    \E r \in Deletions :
        /\ ~rq[r].force
        /\ Finished(rq[r])
        /\ rq[r].status = 500
        /\ Len(rq[r].todo) >= 2
        /\ Head(rq[r].todo) \in rq[r].touched \cap instances

(* C7: a forced deletion of cluster C whose store writes all succeeded     *)
(* ends, whatever helm and kubectl reported, with every stage run to its   *)
(* end and status 200, and the listings then show no cluster C, no         *)
(* instance on C and no secret on C.                                       *)
C7_ForcedDeleteRunsToTheEnd ==
    \A r \in Deletions :
        LET q == rq[r]
        IN (q.force /\ ~q.fault) =>
              /\ q.pc # "d_unwind"
              /\ Finished(q) =>
                    /\ q.status = 200
                    /\ q.todo = <<>>
                    /\ q.got = Len(q.secq)
                    /\ \A x \in DOMAIN q.stask : q.stask[x] = "ok"
                    /\ DOMAIN q.ntask = listgroups
                    /\ AllNamespaceTasksOver(q)
                    /\ q.cluster \notin listClustersStore(clusters)
                    /\ listApplicationInstancesOn(instances, q.cluster) = {<<>>}
                    /\ listSecretsOn(secrets, q.cluster) = {<<>>}

C7_Witness ==
    \E r \in Deletions :
        /\ rq[r].force
        /\ ~rq[r].fault
        /\ Finished(rq[r])
        /\ rq[r].status = 200
        /\ rq[r].unclean \cap InstancesOfA # {}
        /\ rq[r].unclean \cap SecretsOfA # {}

(* C8: without force, once a secret deletion of the cascade has reported a *)
(* failure, no namespace deletion is ever dispatched and the cluster       *)
(* record stays in the store; the request ends with status 500, and it     *)
(* ends only when every dispatched secret deletion is over.                *)
C8_SecretFailureAborts ==
    \A r \in Deletions :
        LET q == rq[r]
        IN /\ (~q.force /\ \E x \in DOMAIN q.stask : q.stask[x] = "failed") =>
                 /\ q.ntask = EmptyMap
                 /\ q.cluster \in DOMAIN clusters
                 /\ Finished(q) => (q.status = 500 /\ q.failed = "secret")
           /\ (Finished(q) \/ q.ntask # EmptyMap) => AllSecretTasksOver(q)

C8_Witness ==
    \E r \in Deletions :
        /\ ~rq[r].force
        /\ Finished(rq[r])
        /\ rq[r].status = 500
        /\ \E x, y \in DOMAIN rq[r].stask :
              rq[r].stask[x] = "failed" /\ rq[r].stask[y] = "ok"

(* C9: a deletion that reached the namespace stage never ends before the   *)
(* record removal, and its answer is that of the removal alone: 200 with   *)
(* the cluster record gone whenever the store removed it, whatever the     *)
(* namespace deletions reported and whether forced or not.                 *)
C9_NamespaceFailuresNeverAbort ==
    \A r \in Deletions :
        LET q == rq[r]
        IN (q.ntask # EmptyMap) =>
              /\ q.pc \in {"d_namespaces", "done"}
              /\ Finished(q) =>
                    /\ AllNamespaceTasksOver(q)
                    /\ q.failed \in {"none", "store"}
                    /\ (q.failed = "none") =>
                          (q.status = 200 /\ q.cluster \notin DOMAIN clusters)

C9_Witness ==
    \E r \in Deletions :
        /\ Finished(rq[r])
        /\ ~rq[r].force
        /\ rq[r].status = 200
        /\ rq[r].cluster \notin DOMAIN clusters
        /\ \A g \in listgroups : rq[r].ntask[g] = "failed"

----------------------------------------------------------------------------
(* Access to clusters on its own: grants, revocations and listings arrive  *)
(* one after the other at a store that holds cluster A, owned by group 1,  *)
(* and cluster B, owned by group 2, with no grant yet.                     *)

InitAccess ==
    /\ clusters = [c \in KnownClusters |-> IF c = ClusterA THEN RecordA ELSE RecordB]
    /\ instances = {}
    /\ secrets = {}
    /\ access = {}
    /\ apps = {}
    /\ reach = <<>>
    /\ locations = <<>>
    /\ InitDBServer
    /\ rq = NoRequests

NextAccess ==
    \E r \in Serial :
        \/ Reply(r)
        \/ ListAllowed(r, Tokens, ClusterRefs)
        \/ GrantAccess(r, Tokens, ClusterRefs, GroupRefs)
        \/ RevokeAccess(r, Tokens, ClusterRefs, GroupRefs)

SpecAccess == InitAccess /\ [][NextAccess]_vars

Listings == {r \in Slots : rq[r].op = "listAllowed" /\ Finished(rq[r]) /\ rq[r].status = 200}
OwnerListed(q) ==
    \E e \in DOMAIN q.body : e[1] = clusters[q.cluster].owningGroup /\ q.body[e] >= 1

(* C10: after any sequence of grants and revocations, a listing of the     *)
(* groups allowed on cluster C holds the owning group of C, unless the     *)
(* wildcard is the only grant stored for C: the listing is then the        *)
(* wildcard pseudo-group alone.                                            *)
C10_OwnerListedUnlessOnlyWildcard ==
    \A r \in Listings :
        LET q == rq[r]
        IN IF listgroupsAllowedOnCluster(access, q.cluster) = {wildcard}
           THEN q.body = [e \in {<<wildcard, wildcardName>>} |-> 1]
           ELSE OwnerListed(q)

(* C10 as the specification states it: every listing of the groups        *)
(* allowed on cluster C holds the owning group of C.                       *)
C10_OwnerAlwaysListed == \A r \in Listings : OwnerListed(rq[r])

C10_Witness ==
    \E r \in Listings :
        /\ listgroupsAllowedOnCluster(access, rq[r].cluster) = {wildcard, G2}
        /\ clusters[rq[r].cluster].owningGroup = G1
        /\ OwnerListed(rq[r])

----------------------------------------------------------------------------
(* getClusterInfo and updateCluster.                                       *)

getLocationsForCluster(loc, id) == IF id \in DOMAIN loc THEN loc[id] ELSE <<>>
setLocationsForCluster(loc, id, value, ok) ==
    IF ok THEN [x \in DOMAIN loc \cup {id} |-> IF x = id THEN value ELSE loc[x]] ELSE loc

(* Lines 348-371: the metadata of the answer, from the record fetched at   *)
(* line 344 and the locations fetched at line 359.                         *)
ClusterData(rec, loc, id) ==
    [id |-> id, name |-> rec.name,
     owningGroup |-> GroupName(findGroupByID(rec.owningGroup)),
     owningOrganization |-> rec.owningOrganization,
     location |-> getLocationsForCluster(loc, id)]

(* Lines 337-346: 403, 404, or status 0 to go on with the record.          *)
getClusterInfo(token, clusterID, cl) ==
    LET user == authenticateUser(token)
        cluster == getCluster(cl, clusterID)
    IN IF user = NoUser THEN [status |-> 403, rec |-> NoRec]
       ELSE IF cluster = NoCluster THEN [status |-> 404, rec |-> NoRec]
       ELSE [status |-> 0, rec |-> cl[cluster]]

(* getClusterInfo makes two reads of the store with nothing that holds     *)
(* them together: the record at line 344 and the locations at line 359.    *)
(* Requests on other server threads are served in between.                 *)
GetClusterInfo(r, tokens, refs) ==
    /\ Free(r)
    /\ \E token \in tokens, clusterID \in refs :
        LET out == getClusterInfo(token, clusterID, clusters)
            q == [Blank EXCEPT !.op = "get", !.user = authenticateUser(token),
                               !.cluster = getCluster(clusters, clusterID)]
        IN /\ UNCHANGED dbserver
           /\ rq' = [rq EXCEPT ![r] =
                        IF out.status = 0 THEN [q EXCEPT !.pc = "g_locations", !.rec = out.rec]
                        ELSE [q EXCEPT !.pc = "done", !.status = out.status]]
           /\ UNCHANGED store

(* Lines 359-371: the locations are read and the answer is made.           *)
GetLocations(r) ==
    /\ rq[r].pc = "g_locations"
    /\ UNCHANGED dbserver
    /\ rq' = [rq EXCEPT ![r] =
                 [@ EXCEPT !.pc = "done", !.status = 200, !.rec = NoRec,
                           !.body = ClusterData(rq[r].rec, locations, rq[r].cluster)]]
    /\ UNCHANGED store

(* A member of the metadata of an update: absent, of the wrong type, or    *)
(* of the right type with a value.                                         *)
Absent == [kind |-> "absent", value |-> <<>>]
WrongType == [kind |-> "wrongType", value |-> <<>>]
Given(value) == [kind |-> "given", value |-> value]

Paris == <<48, 2>>
UpdateBody(json, metadata, kubeconfig, owningOrganization, location) ==
    [json |-> json, metadata |-> metadata, kubeconfig |-> kubeconfig,
     owningOrganization |-> owningOrganization, location |-> location]
(* json: the body parses and is not null; metadata: absent, not an object, *)
(* or an object; location: a given value is an array, whose entries are    *)
(* <<lat, lon>> or, when ill-formed, <<>>.                                 *)
UpdateBodies ==
    {UpdateBody(j, m, k, o, l) :
        j \in BOOLEAN, m \in {"absent", "scalar", "object"},
        k \in {Absent, WrongType, Given(KubeSecondDoc)},
        o \in {Absent, WrongType, Given(Org2)},
        l \in {Absent, WrongType, Given(<<Paris>>), Given(<< <<>> >>)}}

(* Bodies that give one of the three fields.                               *)
OrgOnly == UpdateBody(TRUE, "object", Absent, Given(Org2), Absent)
ConfigOnly == UpdateBody(TRUE, "object", Given(KubeSecondDoc), Absent, Absent)
LocationOnly == UpdateBody(TRUE, "object", Absent, Absent, Given(<<Paris>>))

(* updateCluster, lines 454-549, in the parts that the handler runs one    *)
(* after the other, each with one call of the store: it fetches the record *)
(* and changes its copy; it writes the copy; it writes the locations; it   *)
(* waits for kubectl and answers. Nothing holds the calls together, and    *)
(* requests on other server threads are served in between.                 *)

(* updateConfig, updateMainRecord and updateLocation of lines 485-512, for *)
(* a body that passed the checks.                                          *)
UpdatesConfig(body) == body.kubeconfig.kind = "given"
UpdatesMainRecord(body) == UpdatesConfig(body) \/ body.owningOrganization.kind = "given"
UpdatesLocation(body) == body.location.kind = "given"

(* Lines 456-517.  status 0: go on to the store writes with the copy.      *)
updateClusterRead(token, clusterID, body, cl) ==
    LET user == authenticateUser(token)
        cluster == getCluster(cl, clusterID)
        stop(code) == [status |-> code, rec |-> NoRec]
        updateConfig == body.kubeconfig.kind = "given"
        updateMainRecord == updateConfig \/ body.owningOrganization.kind = "given"
        updateLocation == body.location.kind = "given"
        rec == [cl[cluster] EXCEPT
                   !.config = IF updateConfig THEN body.kubeconfig.value ELSE @,
                   !.owningOrganization = IF body.owningOrganization.kind = "given"
                                          THEN body.owningOrganization.value ELSE @]
    IN IF user = NoUser THEN stop(403)
       ELSE IF cluster = NoCluster THEN stop(404)
       ELSE IF ~IsAdmin(user) /\ ~userInGroup(user, cl[cluster].owningGroup) THEN stop(403)
       ELSE IF ~body.json THEN stop(400)
       ELSE IF body.metadata # "object" THEN stop(400)
       ELSE IF body.kubeconfig.kind = "wrongType" THEN stop(400)
       ELSE IF body.owningOrganization.kind = "wrongType" THEN stop(400)
       ELSE IF body.location.kind = "wrongType" THEN stop(400)
       ELSE IF updateLocation /\ \E i \in 1..Len(body.location.value) :
                                      body.location.value[i] = <<>> THEN stop(400)
       ELSE IF ~updateMainRecord /\ ~updateLocation THEN stop(200)
       ELSE [status |-> 0, rec |-> rec]

(* Lines 522-523: the copy q.rec of the record is written. okMain: whether *)
(* the store call succeeds.                                                *)
updateClusterWrite(q, okMain, cl) ==
    IF UpdatesMainRecord(q.req) THEN storeUpdateCluster(cl, q.cluster, q.rec, okMain) ELSE cl

(* Lines 524-525: the locations are written, whatever line 523 returned.   *)
updateClusterLocations(q, okLoc, loc) ==
    IF UpdatesLocation(q.req)
    THEN setLocationsForCluster(loc, q.cluster, q.req.location.value, okLoc) ELSE loc

(* Lines 527-533 and 548, with `success` after the store calls: 500 when   *)
(* one of them failed, 0 to go on to the probe of the new kubeconfig, 200  *)
(* when there is none.                                                     *)
updateClusterWritten(q, success) ==
    IF ~success THEN 500 ELSE IF UpdatesConfig(q.req) THEN 0 ELSE 200

(* Lines 534-548: the answer once `kubectl get serviceaccounts` has        *)
(* returned `status` and the names in its output.                          *)
updateClusterProbe(status, names) ==
    IF status # 0 \/ ~MentionsDefault(names) THEN 400 ELSE 200

(* What happens around a request: whether its store writes succeed, and    *)
(* the answer of the service account listing.                              *)
Outcome(okMain, okLoc, status, names) ==
    [okMain |-> okMain, okLoc |-> okLoc, status |-> status, names |-> names]
Outcomes ==
    {Outcome(a, b, st, n) : a \in BOOLEAN, b \in BOOLEAN, st \in ExitCodes,
                            n \in {{}, {<<"default">>}, {MyDefault}}}
Probes == {Outcome(TRUE, TRUE, st, n) : st \in ExitCodes, n \in {{}, {<<"default">>}, {MyDefault}}}

(* The request once its store calls are over.                              *)
AfterWrites(q, success) ==
    IF updateClusterWritten(q, success) = 0 THEN [q EXCEPT !.pc = "u_probe", !.fault = FALSE]
    ELSE [q EXCEPT !.pc = "done", !.status = updateClusterWritten(q, success),
                   !.fault = ~success]

UpdateCluster(r, tokens, refs, bodies) ==
    /\ Free(r)
    /\ \E token \in tokens, clusterID \in refs, body \in bodies :
        LET out == updateClusterRead(token, clusterID, body, clusters)
            q == [Blank EXCEPT !.op = "update", !.user = authenticateUser(token),
                               !.cluster = getCluster(clusters, clusterID), !.req = body]
        IN /\ UNCHANGED dbserver
           /\ rq' = [rq EXCEPT ![r] =
                        IF out.status # 0 THEN [q EXCEPT !.pc = "done", !.status = out.status]
                        ELSE IF UpdatesMainRecord(body)
                             THEN [q EXCEPT !.pc = "u_write", !.rec = out.rec]
                        ELSE [q EXCEPT !.pc = "u_locations", !.rec = out.rec]]
           /\ UNCHANGED store

(* The requests, other than r, that are in an update of the cluster that r *)
(* updates, between the read of its record and their answer.               *)
UpdatingWith(r) ==
    {s \in Slots \ {r} : /\ rq[s].op = "update"
                         /\ rq[s].cluster = rq[r].cluster
                         /\ rq[s].pc \in {"u_write", "u_locations", "u_probe"}}

(* Line 523. The field fault holds the negation of `success` between the   *)
(* store calls. The field overwritten is history, which no code reads: it  *)
(* says of a request in an update that another update has written the      *)
(* record of its cluster since it last read or wrote that record itself.   *)
UpdateWrite(r, outcomes) ==
    /\ rq[r].pc = "u_write"
    /\ \E okMain \in {w.okMain : w \in outcomes} :
        LET q == [rq[r] EXCEPT !.nwrite = @ + 1, !.fault = ~okMain,
                               !.overwritten = IF okMain THEN FALSE ELSE @]
        IN /\ clusters' = updateClusterWrite(rq[r], okMain, clusters)
           /\ UNCHANGED dbserver
           /\ rq' = [s \in Slots |->
                        IF s = r
                        THEN IF UpdatesLocation(q.req) THEN [q EXCEPT !.pc = "u_locations"]
                             ELSE AfterWrites(q, okMain)
                        ELSE IF okMain /\ s \in UpdatingWith(r)
                             THEN [rq[s] EXCEPT !.overwritten = TRUE]
                        ELSE rq[s]]
           /\ UNCHANGED <<instances, secrets, access, apps, reach, locations>>

(* Lines 525-533.                                                          *)
UpdateLocations(r, outcomes) ==
    /\ rq[r].pc = "u_locations"
    /\ \E okLoc \in {w.okLoc : w \in outcomes} :
        /\ locations' = updateClusterLocations(rq[r], okLoc, locations)
        /\ UNCHANGED dbserver
        /\ rq' = [rq EXCEPT ![r] =
                     AfterWrites([rq[r] EXCEPT !.nwrite = @ + 1], ~rq[r].fault /\ okLoc)]
        /\ UNCHANGED <<clusters, instances, secrets, access, apps, reach>>

(* The wait for kubectl is over; the store is not looked at again.         *)
UpdateProbe(r, outcomes) ==
    /\ rq[r].pc = "u_probe"
    /\ \E w \in outcomes :
        /\ UNCHANGED dbserver
        /\ rq' = [rq EXCEPT ![r] =
                     [@ EXCEPT !.pc = "done", !.status = updateClusterProbe(w.status, w.names),
                               !.ncmd = 1, !.probe = w]]
        /\ UNCHANGED store

----------------------------------------------------------------------------
(* listClusterGroupAllowedApplications, allowGroupUseOfApplication,        *)
(* denyGroupUseOfApplication.  The store keeps an allow-list entry under   *)
(* the group and cluster it is handed.                                     *)

Applications == {<<"osg-frontier-squid">>}

listApplicationsGroupMayUseOnCluster(ap, g, c) == {e[3] : e \in {x \in ap : x[1] = g /\ x[2] = c}}
allowVoToUseApplication(ap, g, c, a, ok) == IF ok THEN ap \cup {<<g, c, a>>} ELSE ap
storeDenyGroupUseOfApplication(ap, g, c, a, ok) == IF ok THEN ap \ {<<g, c, a>>} ELSE ap

listClusterGroupAllowedApplications(token, clusterID, groupID, cl, ap) ==
    LET user == authenticateUser(token)
        cluster == getCluster(cl, clusterID)
        group == getGroup(groupID)
    IN IF user = NoUser THEN Out(403)
       ELSE IF cluster = NoCluster THEN Out(404)
       ELSE IF group = NoGroup THEN Out(404)
       ELSE IF /\ ~IsAdmin(user)
               /\ ~userInGroup(user, cl[cluster].owningGroup)
               /\ ~userInGroup(user, group) THEN Out(403)
       ELSE [Out(200) EXCEPT !.body = listApplicationsGroupMayUseOnCluster(ap, group, cluster)]

(* Lines 728-758: the store is handed groupID and clusterID as received.   *)
allowGroupUseOfApplication(token, clusterID, groupID, applicationName, ok, cl, ap) ==
    LET user == authenticateUser(token)
        cluster == getCluster(cl, clusterID)
        group == getGroup(groupID)
        kept(status) == Out(status) @@ [apps |-> ap]
    IN IF user = NoUser THEN kept(403)
       ELSE IF cluster = NoCluster THEN kept(404)
       ELSE IF group = NoGroup THEN kept(404)
       ELSE IF ~IsAdmin(user) /\ ~userInGroup(user, cl[cluster].owningGroup) THEN kept(403)
       ELSE [Out(IF ok THEN 200 ELSE 500) EXCEPT !.nwrite = 1, !.fault = ~ok]
               @@ [apps |-> allowVoToUseApplication(ap, groupID, clusterID, applicationName, ok)]

(* Lines 760-790.                                                          *)
denyGroupUseOfApplication(token, clusterID, groupID, applicationName, ok, cl, ap) ==
    LET user == authenticateUser(token)
        cluster == getCluster(cl, clusterID)
        group == getGroup(groupID)
        kept(status) == Out(status) @@ [apps |-> ap]
    IN IF user = NoUser THEN kept(403)
       ELSE IF cluster = NoCluster THEN kept(404)
       ELSE IF group = NoGroup THEN kept(404)
       ELSE IF ~IsAdmin(user) /\ ~userInGroup(user, cl[cluster].owningGroup) THEN kept(403)
       ELSE [Out(IF ok THEN 200 ELSE 500) EXCEPT !.nwrite = 1, !.fault = ~ok]
               @@ [apps |-> storeDenyGroupUseOfApplication(ap, groupID, clusterID,
                                                           applicationName, ok)]

ListApplications(r, tokens, refs, grefs) ==
    /\ Free(r)
    /\ \E token \in tokens, clusterID \in refs, groupID \in grefs :
        /\ UNCHANGED dbserver
        /\ rq' = [rq EXCEPT ![r] =
                     Answer("listApps", token, getCluster(clusters, clusterID), getGroup(groupID),
                            listClusterGroupAllowedApplications(token, clusterID, groupID,
                                                                clusters, apps))]
        /\ UNCHANGED store

AllowApplication(r, tokens, refs, grefs) ==
    /\ Free(r)
    /\ \E token \in tokens, clusterID \in refs, groupID \in grefs,
       applicationName \in Applications, ok \in BOOLEAN :
        LET out == allowGroupUseOfApplication(token, clusterID, groupID, applicationName, ok,
                                              clusters, apps)
        IN /\ apps' = out.apps
           /\ UNCHANGED dbserver
           /\ rq' = [rq EXCEPT ![r] =
                        [Answer("allowApp", token, getCluster(clusters, clusterID),
                                getGroup(groupID), out) EXCEPT !.name = applicationName]]
           /\ UNCHANGED <<clusters, instances, secrets, access, reach, locations>>

DenyApplication(r, tokens, refs, grefs) ==
    /\ Free(r)
    /\ \E token \in tokens, clusterID \in refs, groupID \in grefs,
       applicationName \in Applications, ok \in BOOLEAN :
        LET out == denyGroupUseOfApplication(token, clusterID, groupID, applicationName, ok,
                                             clusters, apps)
        IN /\ apps' = out.apps
           /\ UNCHANGED dbserver
           /\ rq' = [rq EXCEPT ![r] =
                        [Answer("denyApp", token, getCluster(clusters, clusterID),
                                getGroup(groupID), out) EXCEPT !.name = applicationName]]
           /\ UNCHANGED <<clusters, instances, secrets, access, reach, locations>>

----------------------------------------------------------------------------
(* pingCluster, the consistency check, verifyCluster and repairCluster.    *)

(* What the cluster answers to the commands of a check: the service        *)
(* account listing, `helm list` (lines of columns), the namespace listing  *)
(* and the secret listing of each namespace.                               *)
Observation(status, names, helmStatus, helmLines, namespaces, secretsIn) ==
    [status |-> status, names |-> names, helmStatus |-> helmStatus, helmLines |-> helmLines,
     namespaces |-> namespaces, secretsIn |-> secretsIn]

namespacePrefix == "slate-group-"
NamespaceOf(g) == <<namespacePrefix>> \o GroupName(g)
KubeSystem == <<"kube-system">>
HelmHeader == << <<"NAME">>, <<"REVISION">> >>
HelmRow(name) == <<name, <<"1">>>>
StrayRelease == <<"stray-release">>
DefaultToken == <<"default-token-", "x7">>
StraySecret == <<"stray-key">>

HelmListings ==
    {<<>>, <<HelmHeader>>, <<HelmRow(InstanceName(1))>>,
     <<HelmHeader, HelmRow(InstanceName(1))>>,
     <<HelmHeader, <<>>, HelmRow(InstanceName(1)), HelmRow(StrayRelease)>>}
SecretListings ==
    {{}, {DefaultToken}, {SecretName(1), DefaultToken}, {SecretName(1), StraySecret}}
Observations ==
    {Observation(st, names, hs, hl, nss, [ns \in {NamespaceOf(G2), KubeSystem} |-> sl]) :
        st \in ExitCodes, names \in {{}, {<<"default">>}}, hs \in ExitCodes,
        hl \in HelmListings, nss \in SUBSET {NamespaceOf(G2), KubeSystem},
        sl \in SecretListings}

(* internal::pingCluster, lines 820-835.                                   *)
internalPingCluster(status, names) == status = 0 /\ MentionsDefault(names)

(* The reachability cache: an entry is there until it expires.             *)
getCachedClusterReachability(rch, id) ==
    IF id \in DOMAIN rch THEN [valid |-> TRUE, record |-> rch[id]]
    ELSE [valid |-> FALSE, record |-> FALSE]
cacheClusterReachability(rch, id, reachable) ==
    [x \in DOMAIN rch \cup {id} |-> IF x = id THEN reachable ELSE rch[x]]

(* A variant that never reads the cache.                                   *)
pingClusterUncached(token, clusterID, useCache, status, names, cl, rch) ==
    LET user == authenticateUser(token)
        cluster == getCluster(cl, clusterID)
        reachable == internalPingCluster(status, names)
    IN IF user = NoUser THEN Out(403) @@ [fresh |-> FALSE]
       ELSE IF cluster = NoCluster THEN Out(404) @@ [fresh |-> FALSE]
       ELSE [Out(200) EXCEPT !.body = <<reachable>>, !.ncmd = 1, !.nwrite = 1]
               @@ [fresh |-> TRUE]

(* A variant that does not write a fresh result to the cache.              *)
pingClusterUnrecorded(token, clusterID, useCache, status, names, cl, rch) ==
    LET user == authenticateUser(token)
        cluster == getCluster(cl, clusterID)
        cacheResult == IF useCache THEN getCachedClusterReachability(rch, cluster)
                       ELSE [valid |-> FALSE, record |-> FALSE]
        reachable == internalPingCluster(status, names)
    IN IF user = NoUser THEN Out(403) @@ [fresh |-> FALSE]
       ELSE IF cluster = NoCluster THEN Out(404) @@ [fresh |-> FALSE]
       ELSE IF cacheResult.valid
            THEN [Out(200) EXCEPT !.body = <<cacheResult.record>>] @@ [fresh |-> FALSE]
       ELSE [Out(200) EXCEPT !.body = <<reachable>>, !.ncmd = 1] @@ [fresh |-> FALSE]

(* pingCluster, lines 993-1027, up to the answer from the cache or the     *)
(* result of the probe; `fresh` says that the result is still to be        *)
(* written to the cache (line 1016).                                       *)
pingCluster(token, clusterID, useCache, status, names, cl, rch) ==
    LET user == authenticateUser(token)
        cluster == getCluster(cl, clusterID)
        cacheResult == IF useCache THEN getCachedClusterReachability(rch, cluster)
                       ELSE [valid |-> FALSE, record |-> FALSE]
        reachable == internalPingCluster(status, names)
    IN IF user = NoUser THEN Out(403) @@ [fresh |-> FALSE]
       ELSE IF cluster = NoCluster THEN Out(404) @@ [fresh |-> FALSE]
       ELSE IF cacheResult.valid
            THEN [Out(200) EXCEPT !.body = <<cacheResult.record>>] @@ [fresh |-> FALSE]
       ELSE [Out(200) EXCEPT !.body = <<reachable>>, !.ncmd = 1, !.nwrite = 1]
               @@ [fresh |-> TRUE]

(* Lines 993-1015: the request is answered 403 or 404 or from the cache as *)
(* it is now; otherwise kubectl runs, with no lock held, and the slot      *)
(* keeps what it says until the handler writes it to the cache. The slot   *)
(* also keeps whether the request asked for the cache.                     *)
PingCluster(r, tokens, refs, probes) ==
    /\ Free(r)
    /\ \E token \in tokens, clusterID \in refs, useCache \in BOOLEAN, w \in probes :
        LET out == pingCluster(token, clusterID, useCache, w.status, w.names, clusters, reach)
            slot == [Answer("ping", token, getCluster(clusters, clusterID), NoGroup, out)
                        EXCEPT !.useCache = useCache, !.probe = w]
        IN /\ UNCHANGED dbserver
           /\ rq' = [rq EXCEPT ![r] = IF out.fresh
                                      THEN [slot EXCEPT !.pc = "p_record", !.nwrite = 0]
                                      ELSE slot]
           /\ UNCHANGED store

(* Line 1017: store.cacheClusterReachability(cluster.id, reachable), and   *)
(* the answer.                                                             *)
PingRecord(r) ==
    /\ rq[r].pc = "p_record"
    /\ reach' = cacheClusterReachability(reach, rq[r].cluster, rq[r].body[1])
    /\ UNCHANGED dbserver
    /\ rq' = [rq EXCEPT ![r] = [@ EXCEPT !.pc = "done", !.nwrite = 1]]
    /\ UNCHANGED <<clusters, instances, secrets, access, apps, locations>>

(* A cache entry reaches its expiry time.                                  *)
CacheExpires ==
    \E id \in DOMAIN reach :
        /\ reach' = [x \in DOMAIN reach \ {id} |-> reach[x]]
        /\ UNCHANGED dbserver
        /\ UNCHANGED <<clusters, instances, secrets, access, apps, locations, rq>>

(* Lines 857-869: the first line is helm's header; the name is the first   *)
(* column of every other line that has columns.                            *)
existingInstanceNames(helmLines) ==
    {helmLines[i][1] : i \in {k \in 2..Len(helmLines) : helmLines[k] # <<>>}}

(* A variant that lists the secrets of every namespace.                    *)
existingSecretNamesEveryNamespace(obs) ==
    UNION {{Tail(ns) \o <<":">> \o x :
               x \in {y \in obs.secretsIn[ns] : ~StartsWith(y, "default-token-")}} :
           ns \in obs.namespaces}

(* Lines 897-912: the secrets of the namespaces that carry the group       *)
(* prefix, named group:secret, without the default tokens.                 *)
existingSecretNames(obs) ==
    UNION {{Tail(ns) \o <<":">> \o x :
               x \in {y \in obs.secretsIn[ns] : ~StartsWith(y, "default-token-")}} :
           ns \in {n \in obs.namespaces : StartsWith(n, namespacePrefix)}}

expectedSecretNames(secs, cluster) ==
    {GroupName(findGroupByID(x.group)) \o <<":">> \o x.name :
        x \in {y \in secs : y.cluster = cluster}}

(* The result object: its status, its four sets, the instances the store   *)
(* expects, and the number of commands run on the cluster.                 *)
Consistency(status, expectedInstances, missingI, unexpectedI, missingS, unexpectedS, ncmd) ==
    [status |-> status, expectedInstances |-> expectedInstances,
     missingInstances |-> missingI, unexpectedInstances |-> unexpectedI,
     missingSecrets |-> missingS, unexpectedSecrets |-> unexpectedS, ncmd |-> ncmd]

(* A variant whose status after the secrets replaces the one after the     *)
(* instances.                                                              *)
ClusterConsistencyResultSecretsDecide(cluster, listed, secs, obs) ==
    LET expectedInstances == listed
        expectedInstanceNames == {listed[k].name : k \in DOMAIN listed}
        existingI == existingInstanceNames(obs.helmLines)
        missingInstances == expectedInstanceNames \ existingI
        unexpectedInstances == existingI \ expectedInstanceNames
        existingS == existingSecretNames(obs)
        expectedS == expectedSecretNames(secs, cluster)
        missingSecrets == expectedS \ existingS
        unexpectedSecrets == existingS \ expectedS
        seen == {n \in obs.namespaces : StartsWith(n, namespacePrefix)}
    IN IF ~internalPingCluster(obs.status, obs.names)
       THEN Consistency("Unreachable", <<>>, {}, {}, {}, {}, 1)
       ELSE IF obs.helmStatus # 0
       THEN Consistency("HelmFailure", <<>>, {}, {}, {}, {}, 2)
       ELSE Consistency(IF missingSecrets # {} \/ unexpectedSecrets # {}
                        THEN "Inconsistent" ELSE "Consistent",
                        expectedInstances, missingInstances, unexpectedInstances,
                        missingSecrets, unexpectedSecrets, 3 + Cardinality(seen))

(* A variant that goes on to the namespaces and secrets when `helm list`   *)
(* fails.                                                                  *)
ClusterConsistencyResultHelmIgnored(cluster, listed, secs, obs) ==
    LET expectedInstances == listed
        expectedInstanceNames == {listed[k].name : k \in DOMAIN listed}
        existingI == existingInstanceNames(obs.helmLines)
        missingInstances == expectedInstanceNames \ existingI
        unexpectedInstances == existingI \ expectedInstanceNames
        existingS == existingSecretNames(obs)
        expectedS == expectedSecretNames(secs, cluster)
        missingSecrets == expectedS \ existingS
        unexpectedSecrets == existingS \ expectedS
        seen == {n \in obs.namespaces : StartsWith(n, namespacePrefix)}
    IN IF ~internalPingCluster(obs.status, obs.names)
       THEN Consistency("Unreachable", <<>>, {}, {}, {}, {}, 1)
       ELSE IF obs.helmStatus # 0
       THEN Consistency("HelmFailure", <<>>, {}, {}, missingSecrets, unexpectedSecrets,
                        3 + Cardinality(seen))
       ELSE Consistency(IF missingInstances # {} \/ unexpectedInstances # {}
                           \/ missingSecrets # {} \/ unexpectedSecrets # {}
                        THEN "Inconsistent" ELSE "Consistent",
                        expectedInstances, missingInstances, unexpectedInstances,
                        missingSecrets, unexpectedSecrets, 3 + Cardinality(seen))

(* ClusterConsistencyResult, lines 839-940: the ping, `helm list`, the     *)
(* namespace listing and one secret listing for each namespace that        *)
(* carries the group prefix. `listed` is what the store lists at line 872: *)
(* the instances of the cluster, in the store's order.                     *)
ClusterConsistencyResult(cluster, listed, secs, obs) ==
    LET expectedInstances == listed
        expectedInstanceNames == {listed[k].name : k \in DOMAIN listed}
        existingI == existingInstanceNames(obs.helmLines)
        missingInstances == expectedInstanceNames \ existingI
        unexpectedInstances == existingI \ expectedInstanceNames
        existingS == existingSecretNames(obs)
        expectedS == expectedSecretNames(secs, cluster)
        missingSecrets == expectedS \ existingS
        unexpectedSecrets == existingS \ expectedS
        seen == {n \in obs.namespaces : StartsWith(n, namespacePrefix)}
    IN IF ~internalPingCluster(obs.status, obs.names)
       THEN Consistency("Unreachable", <<>>, {}, {}, {}, {}, 1)
       ELSE IF obs.helmStatus # 0
       THEN Consistency("HelmFailure", <<>>, {}, {}, {}, {}, 2)
       ELSE Consistency(IF missingInstances # {} \/ unexpectedInstances # {}
                           \/ missingSecrets # {} \/ unexpectedSecrets # {}
                        THEN "Inconsistent" ELSE "Consistent",
                        expectedInstances, missingInstances, unexpectedInstances,
                        missingSecrets, unexpectedSecrets, 3 + Cardinality(seen))

(* Lines 873-876: expectedInstancesByName.emplace keeps one instance for a *)
(* name, the first that the store listed.                                  *)
expectedInstancesByName(expectedInstances, name) ==
    LET first == CHOOSE k \in DOMAIN expectedInstances :
                    /\ expectedInstances[k].name = name
                    /\ \A j \in 1..(k - 1) : expectedInstances[j].name # name
    IN expectedInstances[first]

(* toJSON, lines 942-991: for every missing name the id of the instance    *)
(* kept for it, the unexpected instances by name, and the number of        *)
(* missing and of unexpected secrets.                                      *)
toJSON(state) ==
    [status |-> state.status,
     missingInstances |-> {expectedInstancesByName(state.expectedInstances, n).id :
                              n \in state.missingInstances},
     unexpectedInstances |-> state.unexpectedInstances,
     missingSecrets |-> Cardinality(state.missingSecrets),
     unexpectedSecrets |-> Cardinality(state.unexpectedSecrets)]

(* verifyCluster, lines 1029-1042, and repairCluster, lines 1044-1075:    *)
(* the answers once the check is made. Both strategies of repairCluster    *)
(* are empty.                                                              *)
verifyClusterAnswer(state) == [Out(200) EXCEPT !.body = toJSON(state), !.ncmd = state.ncmd]
repairClusterAnswer(state) == [Out(200) EXCEPT !.ncmd = state.ncmd]

(* The handlers as functions of what they read: the cluster table, the     *)
(* instances as listed at line 872 and the secrets listed at line 915.     *)
verifyCluster(token, clusterID, obs, cl, listed, secs) ==
    LET user == authenticateUser(token)
        cluster == getCluster(cl, clusterID)
        state == ClusterConsistencyResult(cluster, listed, secs, obs)
    IN IF user = NoUser THEN Out(403)
       ELSE IF cluster = NoCluster THEN Out(404)
       ELSE verifyClusterAnswer(state)

repairCluster(token, clusterID, obs, cl, listed, secs) ==
    LET user == authenticateUser(token)
        cluster == getCluster(cl, clusterID)
        state == ClusterConsistencyResult(cluster, listed, secs, obs)
    IN IF user = NoUser \/ ~IsAdmin(user) THEN Out(403)
       ELSE IF cluster = NoCluster THEN Out(404)
       ELSE repairClusterAnswer(state)

(* Lines 844-855: the check ends with the ping or with `helm list`, before *)
(* anything is listed from the store.                                      *)
EndsEarly(obs) == ~internalPingCluster(obs.status, obs.names) \/ obs.helmStatus # 0

(* The first step of either handler: the requester and the cluster are     *)
(* looked up; the check pings and lists the releases, with no lock held.   *)
(* A check that ends there is answered, with `out` the answer of the       *)
(* handler when nothing has been listed; otherwise the slot keeps what the *)
(* cluster shows until the store is listed.                                *)
BeginCheck(op, token, clusterID, obs, out) ==
    LET cluster == getCluster(clusters, clusterID)
    IN IF out.status # 200 \/ EndsEarly(obs)
       THEN [Answer(op, token, cluster, NoGroup, out)
                EXCEPT !.name = clusterID,
                       !.probe = IF out.status = 200 THEN obs ELSE NoRec,
                       !.check = IF out.status = 200
                                 THEN ClusterConsistencyResult(cluster, <<>>, {}, obs)
                                 ELSE NoRec]
       ELSE [Blank EXCEPT !.pc = "k_instances", !.op = op,
                          !.user = authenticateUser(token), !.cluster = cluster,
                          !.name = clusterID, !.probe = obs]

(* A variant whose check records what its ping found in the reachability   *)
(* cache.                                                                  *)
VerifyClusterRefreshing(r, tokens, refs, observations) ==
    /\ Free(r)
    /\ \E token \in tokens, clusterID \in refs, obs \in observations :
        LET out == verifyCluster(token, clusterID, obs, clusters, <<>>, {})
        IN /\ UNCHANGED dbserver
           /\ rq' = [rq EXCEPT ![r] = BeginCheck("verify", token, clusterID, obs, out)]
           /\ reach' = IF out.status = 200
                       THEN cacheClusterReachability(reach, getCluster(clusters, clusterID),
                                                     internalPingCluster(obs.status, obs.names))
                       ELSE reach
           /\ UNCHANGED <<clusters, instances, secrets, access, apps, locations>>

VerifyCluster(r, tokens, refs, observations) ==
    /\ Free(r)
    /\ \E token \in tokens, clusterID \in refs, obs \in observations :
        LET out == verifyCluster(token, clusterID, obs, clusters, <<>>, {})
        IN /\ UNCHANGED dbserver
           /\ rq' = [rq EXCEPT ![r] = BeginCheck("verify", token, clusterID, obs, out)]
           /\ UNCHANGED store

RepairCluster(r, tokens, refs, observations) ==
    /\ Free(r)
    /\ \E token \in tokens, clusterID \in refs, obs \in observations :
        LET out == repairCluster(token, clusterID, obs, clusters, <<>>, {})
        IN /\ UNCHANGED dbserver
           /\ rq' = [rq EXCEPT ![r] = BeginCheck("repair", token, clusterID, obs, out)]
           /\ UNCHANGED store

(* Line 872: the check lists the instances that the store holds for the    *)
(* cluster at this moment; the namespaces and secrets of the cluster are   *)
(* listed next, with no lock held.                                         *)
CheckInstances(r) ==
    /\ rq[r].pc = "k_instances"
    /\ UNCHANGED dbserver
    /\ \E listed \in listApplicationInstancesOn(instances, rq[r].cluster) :
          rq' = [rq EXCEPT ![r] = [@ EXCEPT !.pc = "k_secrets", !.expectedInstances = listed]]
    /\ UNCHANGED store

(* The last step of the check and of the handler.                          *)
Checked(q, secs) ==
    LET state == ClusterConsistencyResult(q.cluster, q.expectedInstances, secs, q.probe)
        out == IF q.op = "verify" THEN verifyClusterAnswer(state) ELSE repairClusterAnswer(state)
    IN [q EXCEPT !.pc = "done", !.status = out.status, !.body = out.body,
                 !.ncmd = out.ncmd, !.check = state]

(* A variant with the Wipe strategy of repairCluster carried out: the      *)
(* records of the instances that the cluster does not show are removed.    *)
CheckSecretsWiping(r) ==
    /\ rq[r].pc = "k_secrets"
    /\ UNCHANGED dbserver
    /\ rq' = [rq EXCEPT ![r] = Checked(@, secrets)]
    /\ instances' = IF rq[r].op = "repair"
                    THEN {i \in instances :
                             ~(i.cluster = rq[r].cluster
                               /\ i.name \in Checked(rq[r], secrets).check.missingInstances)}
                    ELSE instances
    /\ UNCHANGED <<clusters, secrets, access, apps, reach, locations>>

(* Line 915: the check lists the secrets that the store holds for the      *)
(* cluster at this moment, compares, and the handler answers.              *)
CheckSecrets(r) ==
    /\ rq[r].pc = "k_secrets"
    /\ UNCHANGED dbserver
    /\ rq' = [rq EXCEPT ![r] = Checked(@, secrets)]
    /\ UNCHANGED store

----------------------------------------------------------------------------
(* The whole of the cluster commands: requests of every kind arrive one    *)
(* after the other at a store that holds cluster A, owned by group 1, with *)
(* one instance and one secret, and cluster B.                             *)

ServerRefs == {ClusterA, UnknownRef}
ServerGroupRefs == {G1, wildcard, UnknownGroupId}
ServerCreateBodies ==
    {[wellFormed |-> TRUE, name |-> NameN1, group |-> g, owningOrganization |-> Org1,
      kubeconfig |-> KubeGood] : g \in {G1, UnknownGroupRef}}
ServerUpdateBodies ==
    {UpdateBody(FALSE, "absent", Absent, Absent, Absent),
     UpdateBody(TRUE, "object", Absent, Absent, Absent),
     UpdateBody(TRUE, "object", Given(KubeGood), Absent, Given(<<Paris>>))}
ServerOutcomes ==
    {Outcome(TRUE, TRUE, 0, {<<"default">>}), Outcome(TRUE, TRUE, 1, {}),
     Outcome(FALSE, TRUE, 0, {<<"default">>})}
ServerObservations ==
    {Observation(1, {}, 1, <<>>, {}, [ns \in {NamespaceOf(G2), KubeSystem} |-> {}]),
     Observation(0, {<<"default">>}, 0, <<HelmHeader, HelmRow(InstanceName(1))>>,
                 {NamespaceOf(G2)},
                 [ns \in {NamespaceOf(G2), KubeSystem} |-> {SecretName(1), DefaultToken}])}

InitServer ==
    /\ clusters = [c \in KnownClusters |-> IF c = ClusterA THEN RecordA ELSE RecordB]
    /\ instances = {i \in InstancesOfA : i.id = InstanceId(1)} \cup InstancesOfB
    /\ secrets = {x \in SecretsOfA : x.id = SecretId(1)} \cup SecretsOfB
    /\ access = {}
    /\ apps = {}
    /\ reach = <<>>
    /\ locations = <<>>
    /\ InitDBServer
    /\ rq = NoRequests

NextServer ==
    \/ \E r \in Serial :
          \/ Reply(r)
          \/ ListClusters(r, Tokens, GroupParameters)
          \/ CreateCluster(r, Tokens, ServerCreateBodies)
          \/ CreateAdd(r)
          \/ CreateProbe(r)
          \/ CreateDescribe(r)
          \/ CreateHelmInit(r)
          \/ CreateDeployments(r)
          \/ CreatePoll(r, {<<PodReady>>})
          \/ GetClusterInfo(r, Tokens, ServerRefs)
          \/ GetLocations(r)
          \/ DeleteCluster(r, Tokens, ServerRefs)
          \/ DeleteInstance(r)
          \/ DispatchSecrets(r)
          \/ SecretTask(r)
          \/ AwaitSecret(r)
          \/ Unwind(r)
          \/ DispatchNamespaces(r)
          \/ NamespaceTask(r)
          \/ RemoveRecord(r)
          \/ UpdateCluster(r, Tokens, ServerRefs, ServerUpdateBodies)
          \/ UpdateWrite(r, ServerOutcomes)
          \/ UpdateLocations(r, ServerOutcomes)
          \/ UpdateProbe(r, ServerOutcomes)
          \/ ListAllowed(r, Tokens, ServerRefs)
          \/ GrantAccess(r, Tokens, ServerRefs, ServerGroupRefs)
          \/ RevokeAccess(r, Tokens, ServerRefs, ServerGroupRefs)
          \/ ListApplications(r, Tokens, ServerRefs, ServerGroupRefs)
          \/ AllowApplication(r, Tokens, ServerRefs, ServerGroupRefs)
          \/ DenyApplication(r, Tokens, ServerRefs, ServerGroupRefs)
          \/ PingCluster(r, Tokens, ServerRefs, ServerOutcomes)
          \/ PingRecord(r)
          \/ VerifyCluster(r, Tokens, ServerRefs, ServerObservations)
          \/ RepairCluster(r, Tokens, ServerRefs, ServerObservations)
          \/ CheckInstances(r)
          \/ CheckSecrets(r)
    \/ CacheExpires

SpecServer == InitServer /\ [][NextServer]_vars

Handlers ==
    {"listClusters", "create", "get", "delete", "update", "listAllowed", "grant", "revoke",
     "listApps", "allowApp", "denyApp", "ping", "verify", "repair"}

(* C3: a request of any of the fourteen handlers that carries no token or  *)
(* an unknown one is answered 403 at once, whether or not the cluster and  *)
(* the group it names exist; and a request answered 403 is answered in the *)
(* handler's first step, with the store left as it was, no store write     *)
(* attempted and no kubectl or helm command run.                           *)
C3_AuthorizationPrecedesSideEffects ==
    /\ [](\A r \in Slots :
             LET q == rq[r]
             IN /\ q.op \in Handlers \cup {"none"}
                /\ (q.op \in Handlers /\ q.user = NoUser) => (Finished(q) /\ q.status = 403)
                /\ (q.status = 403) => (Finished(q) /\ q.ncmd = 0 /\ q.nwrite = 0))
    /\ [][\A r \in Slots :
             (rq'[r].status = 403 /\ rq'[r] # rq[r]) => (Free(r) /\ UNCHANGED store)]_vars

C3_Witness ==
    \E r \in Slots :
        /\ Finished(rq[r])
        /\ rq[r].op = "revoke"
        /\ rq[r].user = NoUser
        /\ rq[r].cluster = NoCluster
        /\ rq[r].group = NoGroup
        /\ rq[r].status = 403
        /\ access # {}

----------------------------------------------------------------------------
(* The listings of allowed groups, item by item.                           *)

GrantedOn(cluster) == listgroupsAllowedOnCluster(access, cluster)
WildcardListed(q) == \E e \in DOMAIN q.body : e[1] = wildcard /\ q.body[e] >= 1
OnlyItem(id, name) == [e \in {<<id, name>>} |-> 1]

(* C11: a listing of the groups allowed on cluster C holds the wildcard    *)
(* pseudo-group exactly when the wildcard grant is stored for C, whatever  *)
(* other grants are stored for C.                                          *)
C11_WildcardListedIffGranted ==
    \A r \in Listings :
        WildcardListed(rq[r]) <=> (wildcard \in GrantedOn(rq[r].cluster))

C11_Witness ==
    \E r \in Listings :
        /\ GrantedOn(rq[r].cluster) = {wildcard, G2}
        /\ clusters[rq[r].cluster].owningGroup = G1
        /\ ~WildcardListed(rq[r])

(* C12: while the wildcard is the only grant stored for cluster C, a       *)
(* listing of C is the wildcard pseudo-group alone; a revocation of the    *)
(* wildcard answered 200 leaves no wildcard grant on C, and while no grant *)
(* at all is stored for C a listing of C is the owning group alone.        *)
C12_UniversalAccessListing ==
    /\ \A r \in Listings :
          LET q == rq[r]
              owner == clusters[q.cluster].owningGroup
          IN /\ (GrantedOn(q.cluster) = {wildcard}) => (q.body = OnlyItem(wildcard, wildcardName))
             /\ (GrantedOn(q.cluster) = {}) => (q.body = OnlyItem(owner, GroupName(owner)))
    /\ \A r \in Slots :
          LET q == rq[r]
          IN (Finished(q) /\ q.op = "revoke" /\ q.status = 200 /\ q.group = wildcard) =>
                 (wildcard \notin GrantedOn(q.cluster))

C12_Witness ==
    \E r \in Listings :
        /\ GrantedOn(rq[r].cluster) = {wildcard}
        /\ DOMAIN rq[r].body = {<<wildcard, wildcardName>>}

(* The steps that answer a grant or a revocation in slot r.                *)
Answers(r, op) == rq'[r] # rq[r] /\ rq'[r].op = op /\ Finished(rq'[r])
MayEdit(q) ==
    /\ q.user # NoUser
    /\ q.cluster # NoCluster
    /\ IsAdmin(q.user) \/ userInGroup(q.user, clusters[q.cluster].owningGroup)

(* C13: while no wildcard grant is stored for cluster C, a listing of C is *)
(* the groups with a stored grant and the owning group, each once.  A      *)
(* grant to a group other than the owner answered 200 adds that one pair,  *)
(* a revocation answered 200 removes that one pair, and an authorized      *)
(* grant to the owning group is answered 200 and writes nothing.           *)
C13_ListingIsGrantsPlusOwnerOnce ==
    /\ [](\A r \in Listings :
             LET q == rq[r]
                 owner == clusters[q.cluster].owningGroup
                 listed == GrantedOn(q.cluster) \cup {owner}
             IN (wildcard \notin GrantedOn(q.cluster)) =>
                    (q.body = [e \in {<<g, GroupName(g)>> : g \in listed} |-> 1]))
    /\ [][\A r \in Slots :
             LET q == rq'[r]
                 owner == clusters[q.cluster].owningGroup
             IN /\ (Answers(r, "grant") /\ MayEdit(q) /\ q.group = owner) =>
                       (q.status = 200 /\ q.nwrite = 0 /\ access' = access)
                /\ (Answers(r, "grant") /\ q.status = 200 /\ q.group # owner) =>
                       (access' = access \cup {<<q.group, q.cluster>>})
                /\ (Answers(r, "revoke") /\ q.status = 200) =>
                       (access' = access \ {<<q.group, q.cluster>>})]_vars

C13_Witness ==
    \E r \in Listings :
        /\ GrantedOn(rq[r].cluster) = {G2}
        /\ clusters[rq[r].cluster].owningGroup = G1
        /\ rq[r].body = [e \in {<<G1, GroupName(G1)>>, <<G2, GroupName(G2)>>} |-> 1]

Revocations == {r \in Slots : rq[r].op = "revoke" /\ Finished(rq[r])}

(* C14: a revocation that names the owning group of the cluster, sent by   *)
(* an administrator or by a member of the owning group, is answered 400    *)
(* and leaves the stored grants as they were.                              *)
C14_OwnerRevocationRejected ==
    /\ [](\A r \in Revocations :
             LET q == rq[r]
             IN (MayEdit(q) /\ q.group = clusters[q.cluster].owningGroup) =>
                    (q.status = 400 /\ q.nwrite = 0))
    /\ [][\A r \in Slots :
             (Answers(r, "revoke") /\ rq'[r].status = 400) => (access' = access)]_vars

C14_Witness ==
    \E r \in Revocations :
        /\ rq[r].user = Alice
        /\ rq[r].cluster = ClusterA
        /\ rq[r].group = G1
        /\ rq[r].status = 400
        /\ access # {}

(* C17: a revocation that is turned down leaves the stored grants as they  *)
(* were and says why: 404 when an authenticated requester names a cluster  *)
(* that does not exist, 403 when the requester is neither administrator    *)
(* nor member of the owning group, 404 when an authorized requester names  *)
(* a group that does not exist.                                            *)
C17_RejectedRevocation ==
    /\ [](\A r \in Revocations :
             LET q == rq[r]
             IN /\ (q.user # NoUser /\ q.cluster = NoCluster) => (q.status = 404)
                /\ (q.user # NoUser /\ q.cluster # NoCluster /\ ~MayEdit(q)) => (q.status = 403)
                /\ (MayEdit(q) /\ q.group = NoGroup) => (q.status = 404)
                /\ (q.status \in {403, 404}) => (q.nwrite = 0))
    /\ [][\A r \in Slots :
             (Answers(r, "revoke") /\ rq'[r].status \in {403, 404}) => (access' = access)]_vars

C17_Witness ==
    \E r \in Revocations :
        /\ rq[r].user = Bob
        /\ rq[r].cluster = ClusterA
        /\ rq[r].group = NoGroup
        /\ rq[r].status = 403
        /\ <<G2, ClusterA>> \in access

----------------------------------------------------------------------------
(* Installing an application, as the specification describes it (the       *)
(* instance commands are not part of the cluster commands): the group must *)
(* be allowed on the cluster (wildcard and owner included) and, unless it  *)
(* owns the cluster, the application must be on its allow-list; the record *)
(* is written, helm runs, and a helm failure removes the record again.     *)

groupAllowedOnCluster(cl, acc, group, cluster) ==
    \/ group = cl[cluster].owningGroup
    \/ <<group, cluster>> \in acc
    \/ <<wildcard, cluster>> \in acc

groupMayUseApplication(cl, ap, group, cluster, application) ==
    \/ group = cl[cluster].owningGroup
    \/ application \in listApplicationsGroupMayUseOnCluster(ap, group, cluster)
    \/ wildcard \in listApplicationsGroupMayUseOnCluster(ap, group, cluster)

FreshInstances(insts) ==
    {k \in 1..MaxInstances : \A i \in insts : i.id # InstanceId(k)}

(* A variant that installs without asking whether the group is allowed on  *)
(* the cluster.                                                            *)
installApplicationNoAccessCheck(token, application, groupID, clusterID, helmOK, ok, cl, acc, ap, insts) ==
    LET user == authenticateUser(token)
        group == getGroup(groupID)
        cluster == getCluster(cl, clusterID)
        k == CHOOSE n \in FreshInstances(insts) : \A m \in FreshInstances(insts) : n <= m
        instance == [id |-> InstanceId(k), name |-> InstanceName(k),
                     cluster |-> cluster, owningGroup |-> group]
        kept(status) == Out(status) @@ [instances |-> insts]
    IN IF user = NoUser THEN kept(403)
       ELSE IF group = NoGroup THEN kept(404)
       ELSE IF ~IsAdmin(user) /\ ~userInGroup(user, group) THEN kept(403)
       ELSE IF cluster = NoCluster THEN kept(404)
       ELSE IF ~groupMayUseApplication(cl, ap, group, cluster, application) THEN kept(403)
       ELSE IF ~ok THEN [Out(500) EXCEPT !.nwrite = 1, !.fault = TRUE] @@ [instances |-> insts]
       ELSE IF ~helmOK THEN [Out(500) EXCEPT !.nwrite = 2, !.ncmd = 1] @@ [instances |-> insts]
       ELSE [Out(200) EXCEPT !.nwrite = 1, !.ncmd = 1] @@ [instances |-> insts \cup {instance}]

installApplication(token, application, groupID, clusterID, helmOK, ok, cl, acc, ap, insts) ==
    LET user == authenticateUser(token)
        group == getGroup(groupID)
        cluster == getCluster(cl, clusterID)
        k == CHOOSE n \in FreshInstances(insts) : \A m \in FreshInstances(insts) : n <= m
        instance == [id |-> InstanceId(k), name |-> InstanceName(k),
                     cluster |-> cluster, owningGroup |-> group]
        kept(status) == Out(status) @@ [instances |-> insts]
    IN IF user = NoUser THEN kept(403)
       ELSE IF group = NoGroup THEN kept(404)
       ELSE IF ~IsAdmin(user) /\ ~userInGroup(user, group) THEN kept(403)
       ELSE IF cluster = NoCluster THEN kept(404)
       ELSE IF ~groupAllowedOnCluster(cl, acc, group, cluster) THEN kept(403)
       ELSE IF ~groupMayUseApplication(cl, ap, group, cluster, application) THEN kept(403)
       ELSE IF ~ok THEN [Out(500) EXCEPT !.nwrite = 1, !.fault = TRUE] @@ [instances |-> insts]
       ELSE IF ~helmOK THEN [Out(500) EXCEPT !.nwrite = 2, !.ncmd = 1] @@ [instances |-> insts]
       ELSE [Out(200) EXCEPT !.nwrite = 1, !.ncmd = 1] @@ [instances |-> insts \cup {instance}]

InstallApplication(r, tokens, refs, grefs) ==
    /\ Free(r)
    /\ \E token \in tokens, clusterID \in refs, groupID \in grefs,
       application \in Applications, helmOK \in BOOLEAN, ok \in BOOLEAN :
        LET out == installApplication(token, application, groupID, clusterID, helmOK, ok,
                                      clusters, access, apps, instances)
        IN /\ FreshInstances(instances) # {}
           /\ instances' = out.instances
           /\ UNCHANGED dbserver
           /\ rq' = [rq EXCEPT ![r] = Answer("install", token, getCluster(clusters, clusterID),
                                             getGroup(groupID), out)]
           /\ UNCHANGED <<clusters, secrets, access, apps, reach, locations>>

----------------------------------------------------------------------------
(* Access and installs together: cluster A, owned by group 1, carries an   *)
(* instance and a secret of group 2, which holds a grant on A and may use  *)
(* the application there.                                                  *)

PolicyRefs == {ClusterA, NameN1}
PolicyGroupRefs == {G1, G2, GroupName(G2), wildcard}

InitPolicy ==
    /\ clusters = [c \in KnownClusters |-> IF c = ClusterA THEN RecordA ELSE RecordB]
    /\ instances = {i \in InstancesOfA : i.id = InstanceId(1)} \cup InstancesOfB
    /\ secrets = {x \in SecretsOfA : x.id = SecretId(1)} \cup SecretsOfB
    /\ access = {<<G2, ClusterA>>}
    /\ apps = {<<G2, ClusterA, a>> : a \in Applications}
    /\ reach = <<>>
    /\ locations = <<>>
    /\ InitDBServer
    /\ rq = NoRequests

NextPolicy ==
    \E r \in Serial :
        \/ Reply(r)
        \/ GrantAccess(r, Tokens, PolicyRefs, PolicyGroupRefs)
        \/ RevokeAccess(r, Tokens, PolicyRefs, PolicyGroupRefs)
        \/ InstallApplication(r, Tokens, PolicyRefs, PolicyGroupRefs)

SpecPolicy == InitPolicy /\ [][NextPolicy]_vars

Installs == {r \in Slots : rq[r].op = "install" /\ Finished(rq[r])}
Shut(cl, acc, group, cluster) ==
    /\ group \in Groups
    /\ cluster \in DOMAIN cl
    /\ group # cl[cluster].owningGroup
    /\ <<group, cluster>> \notin acc
    /\ <<wildcard, cluster>> \notin acc

(* C15: once a revocation (of G's own grant or of the wildcard) has left   *)
(* group G, which does not own cluster C, with neither a grant of its own  *)
(* nor the wildcard grant on C, every install for G on C is answered 403   *)
(* and writes no instance, until access is granted again.                  *)
C15_RevokedGroupCannotInstall ==
    /\ [](\A r \in Installs :
             LET q == rq[r]
             IN Shut(clusters, access, q.group, q.cluster) => (q.status = 403 /\ q.nwrite = 0))
    /\ [][\A r \in Slots :
             LET q == rq'[r]
             IN /\ (Answers(r, "install") /\ q.status = 403) => (instances' = instances)
                /\ (Answers(r, "revoke") /\ q.status = 200) =>
                      \A g \in {x \in Groups : Shut(clusters', access', x, q.cluster)},
                         token \in Tokens, a \in Applications,
                         helmOK \in BOOLEAN, ok \in BOOLEAN :
                          \A gref \in {g, GroupName(g)}, cref \in {q.cluster, clusters[q.cluster].name} :
                              LET out == installApplication(token, a, gref, cref, helmOK, ok,
                                                            clusters', access', apps', instances')
                              IN out.status = 403 /\ out.instances = instances']_vars

C15_Witness ==
    \E r \in Installs :
        /\ rq[r].user = Admin
        /\ rq[r].group = G2
        /\ rq[r].cluster = ClusterA
        /\ rq[r].status = 403
        /\ access = {}
        /\ \E i \in instances : i.cluster = ClusterA /\ i.owningGroup = G2

(* C18: a revocation for a group that holds instances on the cluster is    *)
(* answered 200 when the requester may edit the cluster's access and the   *)
(* store write succeeds, and the step changes nothing but the grants: the  *)
(* instances and the secrets in the store stay as they were.               *)
C18_RevocationKeepsInstances ==
    /\ [](\A r \in Revocations :
             LET q == rq[r]
             IN (/\ MayEdit(q)
                 /\ q.group \in Groups
                 /\ q.group # clusters[q.cluster].owningGroup
                 /\ \E i \in instances : i.cluster = q.cluster /\ i.owningGroup = q.group
                 /\ ~q.fault) => (q.status = 200))
    /\ [][\A r \in Slots :
             Answers(r, "revoke") =>
                 (instances' = instances /\ secrets' = secrets /\ clusters' = clusters)]_vars

C18_Witness ==
    \E r \in Revocations :
        /\ rq[r].status = 200
        /\ rq[r].group = G2
        /\ rq[r].cluster = ClusterA
        /\ <<G2, ClusterA>> \notin access
        /\ \E i \in instances : i.cluster = ClusterA /\ i.owningGroup = G2
        /\ \E x \in secrets : x.cluster = ClusterA /\ x.group = G2

----------------------------------------------------------------------------
(* The four edits of the access policy on their own: grants, revocations   *)
(* and edits of the application allow-list, with clusters and groups named *)
(* by id or by name, by a member of the owning group, by a member of       *)
(* another group and by nobody.                                            *)

EditTokens == {TokenOf(Alice), TokenOf(Bob), NoToken}
EditRefs == {ClusterA, NameN1, UnknownRef}
EditGroupRefs == {G1, G2, GroupName(G2), wildcard, UnknownGroupRef}

NextEdits ==
    \E r \in Serial :
        \/ Reply(r)
        \/ GrantAccess(r, EditTokens, EditRefs, EditGroupRefs)
        \/ RevokeAccess(r, EditTokens, EditRefs, EditGroupRefs)
        \/ AllowApplication(r, EditTokens, EditRefs, EditGroupRefs)
        \/ DenyApplication(r, EditTokens, EditRefs, EditGroupRefs)

SpecEdits == InitAccess /\ [][NextEdits]_vars

(* An edit applied twice from the present store, the store writes          *)
(* succeeding: the second application answers as the first and leaves      *)
(* what the first left.                                                    *)
SameTwice(first, second, field) ==
    second.status = first.status /\ second[field] = first[field]

(* C16: from every reachable store and for every requester, cluster and    *)
(* group named, a grant applied twice leaves the grants and answers as a   *)
(* grant applied once; so do a revocation, and, for the allow-list, an     *)
(* allowed and a denied application.                                       *)
C16_EditsIdempotent ==
    \A token \in EditTokens, clusterID \in EditRefs, groupID \in EditGroupRefs :
        /\ LET once == grantGroupClusterAccess(token, clusterID, groupID, TRUE, clusters, access)
           IN SameTwice(once, grantGroupClusterAccess(token, clusterID, groupID, TRUE,
                                                      clusters, once.access), "access")
        /\ LET once == revokeGroupClusterAccess(token, clusterID, groupID, TRUE, clusters, access)
           IN SameTwice(once, revokeGroupClusterAccess(token, clusterID, groupID, TRUE,
                                                       clusters, once.access), "access")
        /\ \A a \in Applications :
              /\ LET once == allowGroupUseOfApplication(token, clusterID, groupID, a, TRUE,
                                                        clusters, apps)
                 IN SameTwice(once, allowGroupUseOfApplication(token, clusterID, groupID, a, TRUE,
                                                               clusters, once.apps), "apps")
              /\ LET once == denyGroupUseOfApplication(token, clusterID, groupID, a, TRUE,
                                                       clusters, apps)
                 IN SameTwice(once, denyGroupUseOfApplication(token, clusterID, groupID, a, TRUE,
                                                              clusters, once.apps), "apps")

(* A grant has just been answered 200, and the same grant again would be   *)
(* answered 200 and leave the grants as they are.                          *)
C16_Witness ==
    \E r \in Slots :
        LET q == rq[r]
            again == grantGroupClusterAccess(TokenOf(Alice), ClusterA, G2, TRUE, clusters, access)
        IN /\ Finished(q) /\ q.op = "grant" /\ q.status = 200 /\ q.nwrite = 1
           /\ q.user = Alice /\ q.cluster = ClusterA /\ q.group = G2
           /\ <<G2, ClusterA>> \in access
           /\ again.status = 200 /\ again.access = access
           /\ apps # {}

----------------------------------------------------------------------------
(* The names of clusters.                                                  *)

NameRefused(cl, name) ==
    \/ Contains(name, "/")
    \/ StartsWith(name, clusterIDPrefix)
    \/ findClusterByName(cl, name) # NoCluster

(* C19: a registration sent by a member of the owning group under a name   *)
(* that holds a slash, begins with cluster_ or is the name of a cluster in *)
(* the store is answered 400 at once: it writes nothing to the store and   *)
(* runs no command on any cluster.                                         *)
C19_BadNameRejected ==
    [][\A r \in Slots :
          LET q == rq'[r]
          IN (/\ Free(r)
              /\ q.op = "create"
              /\ q.user # NoUser
              /\ userInGroup(q.user, q.group)
              /\ NameRefused(clusters, q.name)) =>
                 (/\ Finished(q)
                  /\ q.status = 400
                  /\ q.nwrite = 0
                  /\ q.ncmd = 0
                  /\ UNCHANGED store)]_vars

C19_Witness ==
    \E r \in Slots :
        LET q == rq[r]
        IN /\ Finished(q) /\ q.op = "create" /\ q.status = 400
           /\ q.user = Alice /\ q.group = G1
           /\ q.name = NameN2
           /\ \E id \in DOMAIN clusters : clusters[id].name = NameN2
           /\ q.nwrite = 0 /\ q.ncmd = 0

----------------------------------------------------------------------------
(* Two registrations at once: the server runs its handlers on several      *)
(* threads (slate_service.cpp, multithreaded()), so two createCluster      *)
(* requests interleave step by step.  The store starts without clusters.   *)

RaceTokens == {TokenOf(Alice)}
RaceBodies ==
    {[wellFormed |-> TRUE, name |-> n, group |-> G1, owningOrganization |-> Org1,
      kubeconfig |-> KubeGood] : n \in {NameN1, NameN2}}

InitRace ==
    /\ clusters = <<>>
    /\ instances = {}
    /\ secrets = {}
    /\ access = {}
    /\ apps = {}
    /\ reach = <<>>
    /\ locations = <<>>
    /\ InitDBServer
    /\ rq = NoRequests

NextRace ==
    \E r \in Slots :
        \/ Reply(r)
        \/ CreateCluster(r, RaceTokens, RaceBodies)
        \/ CreateAdd(r)
        \/ CreateProbe(r)
        \/ CreateDescribe(r)
        \/ CreateHelmInit(r)
        \/ CreateDeployments(r)
        \/ CreatePoll(r, {<<PodReady>>})

SpecRace == InitRace /\ [][NextRace]_vars

(* C20: no two cluster records in the store carry the same name, also      *)
(* when two registrations under one name run at the same time.             *)
C20_ClusterNamesUnique ==
    \A a \in DOMAIN clusters, b \in DOMAIN clusters :
        (clusters[a].name = clusters[b].name) => (a = b)

(* Both registrations have passed the name check and neither has written   *)
(* its record yet.                                                         *)
C20_Witness ==
    /\ \A r \in Slots : rq[r].pc = "c_add" /\ rq[r].name = NameN1
    /\ clusters = <<>>

----------------------------------------------------------------------------
(* Pings on their own, two at a time: clusters A and B, an empty           *)
(* reachability cache, the clusters answering a probe in any way at any    *)
(* time, and cache entries expiring at any time.                           *)

PingTokens == {TokenOf(Alice), NoToken}
PingRefs == {ClusterA, ClusterB, UnknownRef}

NextPing ==
    \/ \E r \in Slots :
          \/ Reply(r)
          \/ PingCluster(r, PingTokens, PingRefs, Probes)
          \/ PingRecord(r)
    \/ CacheExpires

SpecPing == InitAccess /\ [][NextPing]_vars

Pings == {r \in Slots : rq[r].op = "ping" /\ Finished(rq[r]) /\ rq[r].status = 200}
ProbeSays(q) == internalPingCluster(q.probe.status, q.probe.names)

(* C21: a ping without the cache leaves its answer in the cache, and a     *)
(* ping with the cache that finds an entry (none has expired since)        *)
(* answers what the entry holds, runs no command on the cluster and        *)
(* leaves the cache as it is.                                              *)
C21_CachedPingRepeatsAnswer ==
    [][\A r \in Slots :
          LET q == rq'[r]
          IN /\ (Free(r) /\ q.op = "ping" /\ q.status = 200 /\ ~q.useCache) =>
                   q.pc = "p_record"
             /\ (rq[r].pc = "p_record" /\ q # rq[r]) =>
                   (Finished(q) /\ reach'[q.cluster] = q.body[1])
             /\ (Free(r) /\ q.op = "ping" /\ q.status = 200
                 /\ q.useCache /\ q.cluster \in DOMAIN reach) =>
                   /\ Finished(q)
                   /\ q.body = <<reach[q.cluster]>> /\ q.ncmd = 0 /\ reach' = reach]_vars

C21_Witness ==
    \E r \in Pings :
        /\ rq[r].useCache
        /\ rq[r].ncmd = 0
        /\ rq[r].body = <<FALSE>>
        /\ rq[r].cluster \in DOMAIN reach
        /\ reach[rq[r].cluster] = FALSE

(* C22: a ping without the cache, or with the cache when no entry is       *)
(* there, probes the cluster once, answers what the probe says and stores  *)
(* that in the cache; a ping with the cache that finds an entry answers    *)
(* the entry, whatever the cluster would say to a probe now.               *)
C22_PingProbesAndRecords ==
    [][\A r \in Slots :
          LET q == rq'[r]
          IN /\ (Free(r) /\ q.op = "ping" /\ q.status = 200) =>
                   IF q.useCache /\ q.cluster \in DOMAIN reach
                   THEN Finished(q) /\ q.body = <<reach[q.cluster]>> /\ q.ncmd = 0
                   ELSE q.pc = "p_record" /\ q.ncmd = 1 /\ q.body = <<ProbeSays(q)>>
             /\ (rq[r].pc = "p_record" /\ q # rq[r]) =>
                   /\ Finished(q) /\ q.ncmd = 1 /\ q.body = <<ProbeSays(q)>>
                   /\ reach' = cacheClusterReachability(reach, q.cluster, ProbeSays(q))]_vars

(* The stale answer: the cache says reachable, the cluster does not        *)
(* answer any more.                                                        *)
C22_Witness ==
    \E r \in Pings :
        /\ rq[r].useCache
        /\ rq[r].body = <<TRUE>>
        /\ rq[r].ncmd = 0
        /\ ~ProbeSays(rq[r])

----------------------------------------------------------------------------
(* Updates on their own: clusters A and B without locations; every         *)
(* combination of the three optional fields, two bodies that are not       *)
(* well-formed, store writes that fail and probes that fail.               *)

UpdateTokens == {TokenOf(Alice), TokenOf(Bob), NoToken}
UpdateRefs == {ClusterA, NameN1, UnknownRef}
FieldBodies ==
    {b \in UpdateBodies :
        \/ b.json /\ b.metadata = "object"
        \/ b.kubeconfig = Absent /\ b.owningOrganization = Absent /\ b.location = Absent}
UpdateOutcomes ==
    {w \in Outcomes : w.names # {MyDefault} /\ (w.status = 0 <=> w.names # {})}

(* Updates on two server threads: one with every body, the other with the  *)
(* bodies that give one field. The record is read by requests on either    *)
(* thread at any time, also between the store calls of an update and its   *)
(* answer.                                                                 *)
RivalBodies == {OrgOnly, ConfigOnly, LocationOnly}
NextUpdate ==
    \/ \E r \in Serial : UpdateCluster(r, UpdateTokens, UpdateRefs, FieldBodies)
    \/ \E r \in Slots \ Serial : UpdateCluster(r, {TokenOf(Alice)}, {ClusterA}, RivalBodies)
    \/ \E r \in Slots :
           \/ Reply(r)
           \/ UpdateWrite(r, UpdateOutcomes)
           \/ UpdateLocations(r, UpdateOutcomes)
           \/ UpdateProbe(r, UpdateOutcomes)
           \/ GetClusterInfo(r, UpdateTokens, UpdateRefs)
           \/ GetLocations(r)

SpecUpdate == InitAccess /\ [][NextUpdate]_vars

(* A step of an update request: its read, one of its store writes or its   *)
(* answer after the probe.                                                 *)
UpdateStep(r) == rq'[r].pc # rq[r].pc /\ rq'[r].op = "update"

(* The answers to updates of an existing cluster by a requester who may    *)
(* edit it, with a body that has a metadata object.                        *)
Updates(r) ==
    /\ Answers(r, "update")
    /\ MayEdit(rq'[r])
    /\ rq'[r].req.json
    /\ rq'[r].req.metadata = "object"

(* The frame of a step of the update in slot r on cluster c: what the step *)
(* never changes, and the no-op answer.                                    *)
C23_Frame(r) ==
    LET q == rq'[r]
        c == q.cluster
    IN /\ (UpdateStep(r) /\ c # NoCluster) =>
             /\ (q.req.location.kind # "given") => (locations' = locations)
             /\ clusters'[c].name = clusters[c].name
             /\ clusters'[c].owningGroup = clusters[c].owningGroup
             /\ clusters'[c].systemNamespace = clusters[c].systemNamespace
             /\ \A x \in DOMAIN clusters \ {c} : clusters'[x] = clusters[x]
       /\ (/\ Updates(r)
           /\ q.req.kubeconfig = Absent
           /\ q.req.owningOrganization = Absent
           /\ q.req.location = Absent) =>
             /\ Free(r)
             /\ q.status = 200 /\ q.nwrite = 0 /\ q.ncmd = 0
             /\ UNCHANGED store

(* C23: no step of an update changes a field of the record that the        *)
(* request does not give (the name, the owning group and the namespace     *)
(* never) or the locations when it gives none, and a request that gives    *)
(* none of kubeconfig, owningOrganization and location is answered 200 in  *)
(* its first step with no store write and no command run on the cluster.   *)
C23_AbsentFieldsKept ==
    [][\A r \in Slots :
          LET q == rq'[r]
              c == q.cluster
          IN /\ C23_Frame(r)
             /\ (UpdateStep(r) /\ c # NoCluster) =>
                   /\ (q.req.kubeconfig.kind # "given") =>
                          (clusters'[c].config = clusters[c].config)
                   /\ (q.req.owningOrganization.kind # "given") =>
                          (clusters'[c].owningOrganization = clusters[c].owningOrganization)]_vars

(* A request that gives only the kubeconfig has written the record, and    *)
(* the organization that another request, answered 200, had stored in the  *)
(* meantime is gone.                                                       *)
C23_Witness ==
    \E r \in Slots, s \in Slots :
        /\ rq[r].op = "update" /\ rq[r].pc = "u_probe"
        /\ rq[r].cluster = ClusterA /\ rq[r].req = ConfigOnly /\ rq[r].nwrite = 1
        /\ rq[s].op = "update" /\ Finished(rq[s]) /\ rq[s].status = 200
        /\ rq[s].cluster = ClusterA /\ rq[s].req = OrgOnly /\ ~rq[s].fault
        /\ clusters[ClusterA].config = KubeSecondDoc
        /\ clusters[ClusterA].owningOrganization = Org1

(* What holds of every step of an update whose record no other update has  *)
(* written since the request read it: the frame above.                     *)
AbsentFieldsKeptUnlessRewritten ==
    [][\A r \in Slots :
          LET q == rq'[r]
              c == q.cluster
          IN /\ C23_Frame(r)
             /\ (UpdateStep(r) /\ c # NoCluster /\ ~rq[r].overwritten) =>
                   /\ (q.req.kubeconfig.kind # "given") =>
                          (clusters'[c].config = clusters[c].config)
                   /\ (q.req.owningOrganization.kind # "given") =>
                          (clusters'[c].owningOrganization = clusters[c].owningOrganization)]_vars

(* The steps of C24 for the update in slot r; kept: whether the record is  *)
(* required to hold the kubeconfig of the request.                         *)
C24_Steps(r, kept) ==
    LET q == rq'[r]
    IN /\ (UpdateStep(r) /\ q.pc = "u_probe") =>
             /\ q.ncmd = 0 /\ q.nwrite >= 1
             /\ kept => (clusters'[q.cluster].config = q.req.kubeconfig.value)
       /\ (UpdateStep(r) /\ rq[r].pc = "u_probe") =>
             /\ Finished(q) /\ UNCHANGED store
             /\ kept => (clusters[q.cluster].config = q.req.kubeconfig.value)
       /\ (Updates(r) /\ q.req.kubeconfig.kind = "given" /\ q.status \notin {403, 404}
              /\ q.req.owningOrganization.kind # "wrongType"
              /\ q.req.location \in {Absent, Given(<<Paris>>)}) =>
             /\ q.nwrite >= 1
             /\ q.fault => (q.status = 500 /\ q.ncmd = 0)
             /\ ~q.fault =>
                   /\ q.ncmd = 1
                   /\ kept => (clusters'[q.cluster].config = q.req.kubeconfig.value)
                   /\ q.status = IF ProbeSays(q) THEN 200 ELSE 400

(* C24: an update that gives a kubeconfig writes the record and then runs  *)
(* the service account listing: the record holds the kubeconfig of the     *)
(* request while the listing runs, and the step that answers after the     *)
(* listing leaves the store alone; when the write succeeded and the        *)
(* listing fails the answer is 400 and the store holds the kubeconfig of   *)
(* the request; no listing is run when a write failed.                     *)
C24_FailedProbeKeepsWrite ==
    [][\A r \in Slots : C24_Steps(r, TRUE)]_vars

(* A request that gave a new kubeconfig is answered 400 after a failed     *)
(* listing, its write done, and the record holds the kubeconfig it had     *)
(* before: another request, which gave the organization only, has written  *)
(* the record since.                                                       *)
C24_Witness ==
    \E r \in Slots, s \in Slots :
        LET q == rq[r]
        IN /\ Finished(q) /\ q.op = "update" /\ q.status = 400
           /\ q.cluster = ClusterA
           /\ q.ncmd = 1 /\ q.nwrite = 1 /\ ~q.fault
           /\ ~ProbeSays(q)
           /\ q.req = ConfigOnly
           /\ q.overwritten
           /\ rq[s].op = "update" /\ rq[s].cluster = ClusterA /\ rq[s].req = OrgOnly
           /\ Finished(rq[s]) /\ rq[s].status = 200
           /\ clusters[ClusterA].config = RecordA.config
           /\ clusters[ClusterA].owningOrganization = Org2

(* What holds of every update whose record no other update has written     *)
(* since the request wrote it: the steps above.                            *)
FailedProbeKeepsWriteUnlessRewritten ==
    [][\A r \in Slots : C24_Steps(r, ~rq'[r].overwritten)]_vars

----------------------------------------------------------------------------
(* Consistency checks on their own: a store that holds any of the          *)
(* instances and secrets of cluster A, and a cluster that answers the      *)
(* commands of the check in every way.                                     *)

VerifyTokens == {TokenOf(Alice), NoToken}
VerifyRefs == {ClusterA}
VerifyObservations ==
    {Observation(w.status, w.names, hs, hl, nss,
                 [ns \in {NamespaceOf(G2), KubeSystem} |->
                     IF ns = KubeSystem THEN stray ELSE sl]) :
        w \in {x \in Probes : x.names # {MyDefault} /\ (x.status = 0 <=> x.names # {})},
        hs \in ExitCodes, hl \in HelmListings,
        nss \in SUBSET {NamespaceOf(G2), KubeSystem},
        sl \in SecretListings, stray \in {{}, {StraySecret}}}

InitVerify ==
    /\ clusters = [c \in KnownClusters |-> IF c = ClusterA THEN RecordA ELSE RecordB]
    /\ instances \in {on \cup InstancesOfB : on \in SUBSET InstancesOfA}
    /\ secrets \in {on \cup SecretsOfB : on \in SUBSET SecretsOfA}
    /\ access = {}
    /\ apps = {}
    /\ reach = <<>>
    /\ locations = <<>>
    /\ InitDBServer
    /\ rq = NoRequests

NextVerify ==
    \E r \in Serial :
        \/ Reply(r)
        \/ VerifyCluster(r, VerifyTokens, VerifyRefs, VerifyObservations)
        \/ CheckInstances(r)
        \/ CheckSecrets(r)

SpecVerify == InitVerify /\ [][NextVerify]_vars

(* The finished checks, and those that got as far as the comparison.       *)
Checks == {r \in Slots : rq[r].op = "verify" /\ Finished(rq[r]) /\ rq[r].status = 200}
Compared(q) == internalPingCluster(q.probe.status, q.probe.names) /\ q.probe.helmStatus = 0

(* What the claim calls expected and observed, said element by element.    *)
StoredInstanceName(q, n) == \E i \in instances : i.cluster = q.cluster /\ i.name = n
HelmShows(q, n) ==
    \E k \in 2..Len(q.probe.helmLines) :
        q.probe.helmLines[k] # <<>> /\ q.probe.helmLines[k][1] = n
StoredSecretKey(q, k) ==
    \E x \in secrets : x.cluster = q.cluster /\ k = GroupName(x.group) \o <<":">> \o x.name
ClusterShowsKey(q, k) ==
    \E ns \in q.probe.namespaces : \E y \in q.probe.secretsIn[ns] :
        /\ ns[1] = namespacePrefix
        /\ y[1] # "default-token-"
        /\ k = Tail(ns) \o <<":">> \o y
InstanceNames == {InstanceName(k) : k \in 1..MaxInstances} \cup {StrayRelease, <<"NAME">>}
SecretKeys ==
    {g \o <<":">> \o y : g \in {GroupName(G1), GroupName(G2), <<>>},
                         y \in {SecretName(k) : k \in 1..MaxSecrets}
                               \cup {StraySecret, DefaultToken}}

(* C25: after a check that reached the comparison, the missing instances   *)
(* are the stored instance names of the cluster that `helm list` does not  *)
(* show and the unexpected ones the shown names that are not stored; the   *)
(* missing and unexpected secrets are the same two differences over the    *)
(* keys group:secret, the cluster's side taken from the namespaces with    *)
(* the group prefix and without the default tokens.                        *)
C25_DifferenceSets ==
    \A r \in Checks :
        LET q == rq[r]
        IN Compared(q) =>
              /\ q.check.missingInstances \cup q.check.unexpectedInstances \subseteq InstanceNames
              /\ q.check.missingSecrets \cup q.check.unexpectedSecrets \subseteq SecretKeys
              /\ \A n \in InstanceNames :
                    /\ n \in q.check.missingInstances <=>
                           (StoredInstanceName(q, n) /\ ~HelmShows(q, n))
                    /\ n \in q.check.unexpectedInstances <=>
                           (HelmShows(q, n) /\ ~StoredInstanceName(q, n))
              /\ \A k \in SecretKeys :
                    /\ k \in q.check.missingSecrets <=>
                           (StoredSecretKey(q, k) /\ ~ClusterShowsKey(q, k))
                    /\ k \in q.check.unexpectedSecrets <=>
                           (ClusterShowsKey(q, k) /\ ~StoredSecretKey(q, k))

C25_Witness ==
    \E r \in Checks :
        LET q == rq[r]
        IN /\ Compared(q)
           /\ q.probe.namespaces = {NamespaceOf(G2), KubeSystem}
           /\ q.probe.secretsIn[KubeSystem] = {StraySecret}
           /\ q.probe.secretsIn[NamespaceOf(G2)] = {SecretName(1), DefaultToken}
           /\ q.check.unexpectedSecrets = {}
           /\ q.check.missingSecrets = {GroupName(G2) \o <<":">> \o SecretName(2)}
           /\ q.check.missingInstances = {InstanceName(2)}
           /\ q.check.unexpectedInstances = {StrayRelease}

(* C26: after a check that reached the comparison the status is Consistent *)
(* when the four sets are empty and Inconsistent otherwise, and the answer *)
(* carries that status.                                                    *)
C26_ConsistentIffNoDifference ==
    \A r \in Checks :
        LET q == rq[r]
            same == /\ q.check.missingInstances = {} /\ q.check.unexpectedInstances = {}
                    /\ q.check.missingSecrets = {} /\ q.check.unexpectedSecrets = {}
        IN Compared(q) =>
              /\ q.check.status = IF same THEN "Consistent" ELSE "Inconsistent"
              /\ q.body.status = q.check.status

C26_Witness ==
    \E r \in Checks :
        LET q == rq[r]
        IN /\ Compared(q)
           /\ q.check.status = "Inconsistent"
           /\ q.check.missingInstances # {}
           /\ q.check.unexpectedInstances = {}
           /\ q.check.missingSecrets = {} /\ q.check.unexpectedSecrets = {}
           /\ secrets # SecretsOfB

(* C27: a check whose ping fails is Unreachable after that one command; a  *)
(* check whose `helm list` exits non-zero is HelmFailure after the ping    *)
(* and that listing; in both cases the four sets are empty.                *)
C27_ChecksStopEarly ==
    \A r \in Checks :
        LET q == rq[r]
            pinged == internalPingCluster(q.probe.status, q.probe.names)
            nothing == /\ q.check.missingInstances = {} /\ q.check.unexpectedInstances = {}
                       /\ q.check.missingSecrets = {} /\ q.check.unexpectedSecrets = {}
                       /\ q.body.missingInstances = {} /\ q.body.unexpectedInstances = {}
                       /\ q.body.missingSecrets = 0 /\ q.body.unexpectedSecrets = 0
        IN /\ ~pinged => (q.body.status = "Unreachable" /\ q.ncmd = 1 /\ nothing)
           /\ (pinged /\ q.probe.helmStatus # 0) =>
                 (q.body.status = "HelmFailure" /\ q.ncmd = 2 /\ nothing)
           /\ Compared(q) => q.body.status \in {"Consistent", "Inconsistent"}

C27_Witness ==
    \E r \in Checks :
        LET q == rq[r]
        IN /\ internalPingCluster(q.probe.status, q.probe.names)
           /\ q.probe.helmStatus # 0
           /\ q.body.status = "HelmFailure"
           /\ q.ncmd = 2
           /\ q.probe.namespaces = {NamespaceOf(G2)}
           /\ q.probe.secretsIn[NamespaceOf(G2)] = {SecretName(1), StraySecret}
           /\ SecretsOfA \subseteq secrets
           /\ q.probe.helmLines = <<HelmHeader, <<>>, HelmRow(InstanceName(1)), HelmRow(StrayRelease)>>

----------------------------------------------------------------------------
(* What lets a registration past each bootstrap step, at the step it is    *)
(* waiting for: whatever the cluster answers, the step goes on only on the *)
(* answers named here.                                                     *)
BootstrapGates ==
    \A r \in Slots :
        LET q == rq[r]
            went(res, pcs) == res.slot.pc \in pcs
        IN /\ q.pc = "c_probe" =>
                 \A st \in ExitCodes, names \in SUBSET ServiceAccountNames :
                     IF st = 0 /\ (\E n \in names : Contains(n, "default"))
                        /\ q.rec.systemNamespace \in names
                     THEN went(createProbe(q, st, names), {"c_describe"})
                     ELSE createProbe(q, st, names).slot.status = 500
           /\ q.pc = "c_describe" =>
                 \A st \in ExitCodes, lines \in DescribeOutputs :
                     IF st = 0 /\ (\E i \in 1..Len(lines) :
                                      lines[i] = <<"Namespace:", q.rec.systemNamespace>>)
                     THEN went(createDescribe(q, st, lines), {"c_helm"})
                     ELSE createDescribe(q, st, lines).slot.status = 500
           /\ q.pc = "c_helm" =>
                 \A st \in ExitCodes, out \in SUBSET HelmMessages :
                     IF st = 0 /\ out # {}
                     THEN went(createHelmInit(q, st, out),
                               IF "Warning: already installed" \in out
                               THEN {"c_deploy"} ELSE {"c_poll"})
                     ELSE createHelmInit(q, st, out).slot.status = 500
           /\ q.pc = "c_deploy" =>
                 \A st \in ExitCodes, names \in SUBSET DeploymentNames :
                     IF st = 0 /\ <<"tiller-deploy">> \in names
                     THEN went(createDeployments(q, st, names), {"c_poll"})
                     ELSE createDeployments(q, st, names).slot.status = 500

(* C28: createCluster answers 200 only when every bootstrap step passed:   *)
(* each step lets the request on only on the answers the claim names, and  *)
(* a request answered 200 has run the listing, the describe, helm init and *)
(* a pod listing in which a tiller-deploy pod reported N/N ready, N > 0.   *)
C28_OkOnlyAfterFullBootstrap ==
    /\ BootstrapGates
    /\ \A r \in Registrations :
          LET q == rq[r]
          IN q.status = 200 => (q.ncmd >= 4 /\ q.sawReady /\ q.ready)

C28_Witness ==
    \E r \in Registrations :
        LET q == rq[r]
        IN /\ q.status = 200
           /\ q.failed = "podListing"
           /\ q.ncmd = 4
           /\ q.delaySoFar = 0
           /\ ~q.sawReady
           /\ q.rec.id \in DOMAIN clusters

----------------------------------------------------------------------------
(* Registration with a server thread that keeps running: a request that    *)
(* is in the readiness loop takes its next turn.                           *)
SpecCreateFair == SpecCreate /\ WF_vars(\E r \in Serial : CreatePoll(r, PodListings))

MaxListings == (maxDelay \div delay) + 1
Polling == {r \in Slots : rq[r].op = "create" /\ rq[r].pc = "c_poll"}
DonePolling == {r \in Registrations : rq[r].npoll > 0}

(* C29: the readiness loop ends.  While it runs no listing was found ready *)
(* or failed and the delay is a multiple of 500 ms, at most 120000 ms, one *)
(* step for each listing so far; a turn either ends the loop or sleeps     *)
(* 500 ms, and sleeps only below the deadline; the loop ends by a ready    *)
(* listing, a failed listing or the deadline, after at most 241 listings;  *)
(* and a request in the loop always leaves it.                             *)
C29_ReadinessPollBounded ==
    /\ [](/\ \A r \in Polling :
                LET q == rq[r]
                IN /\ ~q.ready /\ q.failed = "none"
                   /\ q.delaySoFar = q.npoll * delay
                   /\ q.delaySoFar <= maxDelay
          /\ \A r \in DonePolling :
                LET q == rq[r]
                IN /\ q.npoll = (q.delaySoFar \div delay) + 1
                   /\ q.npoll <= MaxListings
                   /\ MaxListings = 241
                   /\ q.failed \in {"none", "podListing", "timeout"}
                   /\ q.failed = "none" <=> q.ready
                   /\ q.failed = "timeout" => q.delaySoFar = maxDelay)
    /\ [][\A r \in Polling :
             rq'[r] # rq[r] =>
                /\ rq'[r].npoll = rq[r].npoll + 1
                /\ \/ Finished(rq'[r]) /\ rq'[r].delaySoFar = rq[r].delaySoFar
                   \/ /\ rq'[r].pc = "c_poll"
                      /\ rq[r].delaySoFar < maxDelay
                      /\ rq'[r].delaySoFar = rq[r].delaySoFar + delay]_vars
    /\ \A r \in Serial : (rq[r].pc = "c_poll") ~> Finished(rq[r])

C29_Witness ==
    \E r \in DonePolling :
        LET q == rq[r]
        IN /\ q.failed = "timeout"
           /\ q.npoll = 241
           /\ q.delaySoFar = 120000

----------------------------------------------------------------------------
(* internal::deleteCluster holds the kubeconfig path from line 401 until   *)
(* it returns.                                                             *)
HoldsConfigPath(q) ==
    q.op = "delete" /\ q.pc \in {"d_instances", "d_secrets", "d_unwind", "d_namespaces"}
SecretTasksRunning(q) == {x \in DOMAIN q.stask : q.stask[x] = "running"}
NamespaceTasksRunning(q) == {g \in DOMAIN q.ntask : q.ntask[g] = "running"}

(* C30: internal::deleteCluster returns, with success or with an error,    *)
(* only when no secret deletion and no namespace deletion it dispatched is *)
(* running: a task runs only while the deletion holds the kubeconfig path, *)
(* the step that returns finds every task over, and a task ends only in a  *)
(* deletion that has not returned.                                         *)
C30_JoinBeforeReturn ==
    /\ [](\A r \in Slots :
             LET q == rq[r]
             IN /\ (SecretTasksRunning(q) # {} \/ NamespaceTasksRunning(q) # {}) =>
                      HoldsConfigPath(q)
                /\ SecretTasksRunning(q) # {} => q.pc \in {"d_secrets", "d_unwind"}
                /\ NamespaceTasksRunning(q) # {} => q.pc = "d_namespaces")
    /\ [][\A r \in Slots :
             /\ (HoldsConfigPath(rq[r]) /\ ~HoldsConfigPath(rq'[r])) =>
                   /\ SecretTasksRunning(rq[r]) = {}
                   /\ NamespaceTasksRunning(rq[r]) = {}
                   /\ Finished(rq'[r])
             /\ (SecretTasksRunning(rq'[r]) # SecretTasksRunning(rq[r])
                    \/ NamespaceTasksRunning(rq'[r]) # NamespaceTasksRunning(rq[r])) =>
                   (HoldsConfigPath(rq[r]) /\ HoldsConfigPath(rq'[r]))]_vars

C30_Witness ==
    \E r \in Deletions :
        LET q == rq[r]
        IN /\ Finished(q) /\ q.status = 500 /\ q.failed = "secret"
           /\ Len(q.secq) = 2
           /\ q.got = 0
           /\ q.stask[q.secq[1]] = "failed"
           /\ q.stask[q.secq[2]] = "ok"
           /\ q.ntask = EmptyMap

----------------------------------------------------------------------------
(* C31: every cluster record in the store has as systemNamespace the       *)
(* namespace of the first context of the kubeconfig it holds, after a      *)
(* registration and after an update that replaces the kubeconfig.          *)
C31_NamespaceMatchesKubeconfig ==
    \A c \in DOMAIN clusters :
        clusters[c].systemNamespace = FirstNamespace(clusters[c].config.docs)

C31_Witness ==
    \E r \in Slots :
        LET q == rq[r]
        IN /\ Finished(q) /\ q.op = "update" /\ q.status = 200
           /\ q.cluster = ClusterA
           /\ q.req.kubeconfig = Given(KubeSecondDoc)
           /\ ProbeSays(q)
           /\ clusters[ClusterA].config = KubeSecondDoc
           /\ clusters[ClusterA].systemNamespace = SlateSystem
           /\ FirstNamespace(KubeSecondDoc.docs) = OtherNs

----------------------------------------------------------------------------
(* What an admin is shown as the applications of a group on a cluster,     *)
(* the two addressed in any way that names them.                           *)
ListedFor(cref, gref, cl, ap) ==
    listClusterGroupAllowedApplications(TokenOf(Admin), cref, gref, cl, ap).body
Addresses(cref, gref, q, cl) == getCluster(cl, cref) = q.cluster /\ getGroup(gref) = q.group

(* C32: after an allowApp answered 200 the list of the group's             *)
(* applications on the cluster contains the application, and after a       *)
(* denyApp answered 200 it does not, however the request and the list      *)
(* address the group and the cluster.                                      *)
C32_AllowListRoundTrip ==
    [][\A r \in Slots :
          LET q == rq'[r]
          IN /\ (Answers(r, "allowApp") /\ q.status = 200) =>
                   \A cref \in EditRefs, gref \in EditGroupRefs :
                       Addresses(cref, gref, q, clusters') =>
                           q.name \in ListedFor(cref, gref, clusters', apps')
             /\ (Answers(r, "denyApp") /\ q.status = 200) =>
                   \A cref \in EditRefs, gref \in EditGroupRefs :
                       Addresses(cref, gref, q, clusters') =>
                           q.name \notin ListedFor(cref, gref, clusters', apps')]_vars

C32_Witness ==
    \E r \in Slots :
        LET q == rq[r]
        IN /\ Finished(q) /\ q.op = "allowApp" /\ q.status = 200 /\ ~q.fault
           /\ q.cluster = ClusterA /\ q.group = G2
           /\ <<GroupName(G2), NameN1, q.name>> \in apps
           /\ ListedFor(ClusterA, G2, clusters, apps) = {}
           /\ ListedFor(NameN1, GroupName(G2), clusters, apps) = {}

----------------------------------------------------------------------------
(* A cluster deletion and installs on two server threads: a member of the  *)
(* owning group deletes cluster A while a member of group 2, which holds a *)
(* grant on A and may use the application there, installs on A.            *)

CascadeTokens == {TokenOf(Alice)}
CascadeRefs == {ClusterA}
InstallerTokens == {TokenOf(Bob)}
InstallerGroupRefs == {G2}

NextCascade ==
    \/ DeleteCluster("r1", CascadeTokens, CascadeRefs)
    \/ DeleteInstance("r1")
    \/ DispatchSecrets("r1")
    \/ SecretTask("r1")
    \/ AwaitSecret("r1")
    \/ Unwind("r1")
    \/ DispatchNamespaces("r1")
    \/ NamespaceTask("r1")
    \/ RemoveRecord("r1")
    \/ InstallApplication("r2", InstallerTokens, CascadeRefs, InstallerGroupRefs)
    \/ Reply("r2")

SpecCascade == InitPolicy /\ [][NextCascade]_vars

(* C33: as long as no store write of the deletion has failed, every        *)
(* instance and every secret in the store is on a cluster whose record is  *)
(* in the store, also while a cluster deletion and an install run at the   *)
(* same time.                                                              *)
C33_ReferentialIntegrity ==
    (~rq["r1"].fault) =>
        /\ \A i \in instances : i.cluster \in DOMAIN clusters
        /\ \A x \in secrets : x.cluster \in DOMAIN clusters

C33_Witness ==
    /\ rq["r1"].op = "delete" /\ Finished(rq["r1"]) /\ rq["r1"].status = 200
    /\ ~rq["r1"].fault /\ rq["r1"].unclean = {}
    /\ rq["r2"].op = "install" /\ Finished(rq["r2"]) /\ rq["r2"].status = 200
    /\ ClusterA \notin DOMAIN clusters
    /\ \E i \in instances : i.cluster = ClusterA
    /\ \A x \in secrets : x.cluster # ClusterA

----------------------------------------------------------------------------
(* Two threads update cluster A with requests that give one field each:    *)
(* the organization, the kubeconfig or the location.                       *)
LostUpdateOutcomes ==
    {Outcome(a, TRUE, st, IF st = 0 THEN {<<"default">>} ELSE {}) :
        a \in BOOLEAN, st \in ExitCodes}

NextLostUpdate ==
    \E r \in Slots :
        \/ Reply(r)
        \/ UpdateCluster(r, {TokenOf(Alice), TokenOf(Bob)}, {ClusterA, NameN1},
                         {OrgOnly, ConfigOnly, LocationOnly})
        \/ UpdateWrite(r, LostUpdateOutcomes)
        \/ UpdateLocations(r, LostUpdateOutcomes)
        \/ UpdateProbe(r, LostUpdateOutcomes)

SpecLostUpdate == InitAccess /\ [][NextLostUpdate]_vars

(* C34: once two requests on the same cluster, one that gives only the     *)
(* organization and one that gives only the kubeconfig, have both been     *)
(* answered 200, the stored record holds both the new organization and the *)
(* new kubeconfig.                                                         *)
C34_NoLostUpdate ==
    \A r1 \in Slots, r2 \in Slots :
        (/\ rq[r1].op = "update" /\ Finished(rq[r1]) /\ rq[r1].status = 200
         /\ rq[r2].op = "update" /\ Finished(rq[r2]) /\ rq[r2].status = 200
         /\ rq[r1].cluster = rq[r2].cluster
         /\ rq[r1].req = OrgOnly
         /\ rq[r2].req = ConfigOnly) =>
            /\ clusters[rq[r1].cluster].owningOrganization = Org2
            /\ clusters[rq[r1].cluster].config = KubeSecondDoc

C34_Witness ==
    \E r1 \in Slots, r2 \in Slots :
        /\ rq[r1].op = "update" /\ Finished(rq[r1]) /\ rq[r1].status = 200
        /\ rq[r2].op = "update" /\ Finished(rq[r2]) /\ rq[r2].status = 200
        /\ rq[r1].cluster = ClusterA /\ rq[r2].cluster = ClusterA
        /\ rq[r1].req = OrgOnly
        /\ rq[r2].req = ConfigOnly
        /\ ~rq[r1].fault /\ ~rq[r2].fault
        /\ clusters[ClusterA].config = KubeSecondDoc
        /\ clusters[ClusterA].owningOrganization = Org1

----------------------------------------------------------------------------
(* The step of a deletion in which the task of secret x ends.              *)
SecretTaskEnds(r, x) ==
    /\ x \in DOMAIN rq[r].stask
    /\ rq[r].stask[x] = "running"
    /\ rq'[r].stask[x] # "running"

(* C35: in a cluster deletion every secret is deleted in forced mode       *)
(* whatever the caller's flag: the task always goes on to the store, a     *)
(* failure of the deletion on the cluster alone does not make it fail, and *)
(* unless the store write fails the secret's record leaves the store.      *)
C35_SecretsAlwaysForced ==
    [][\A r \in Slots : \A x \in DOMAIN rq[r].stask :
          SecretTaskEnds(r, x) =>
             /\ rq'[r].nwrite = rq[r].nwrite + 1
             /\ (x \in secrets') <=> (rq'[r].stask[x] = "failed")
             /\ (rq'[r].stask[x] = "failed") => (rq'[r].fault /\ secrets' = secrets)
             /\ (~rq'[r].fault) => (rq'[r].stask[x] = "ok" /\ x \notin secrets')]_vars

C35_Witness ==
    \E r \in Deletions :
        LET q == rq[r]
        IN /\ ~q.force /\ ~q.fault
           /\ Finished(q) /\ q.status = 200
           /\ \E x \in DOMAIN q.stask :
                 x \in q.unclean /\ q.stask[x] = "ok" /\ x \notin secrets

----------------------------------------------------------------------------
(* A deletion asked by a user who is known but is not a member of the      *)
(* group that owns the cluster.                                            *)
Outsider(q, cl) ==
    LET c == getCluster(cl, q.name)
    IN /\ q.op = "delete"
       /\ q.user # NoUser
       /\ c # NoCluster
       /\ ~userInGroup(q.user, cl[c].owningGroup)

(* C36: deleteCluster by an authenticated user who is not a member of the  *)
(* owning group, an admin included, is answered 403 at once, with no       *)
(* command run, no task dispatched and the store as it was; updateCluster, *)
(* grant and revoke never answer an admin 403.                             *)
C36_DeleteForMembersOnly ==
    [][\A r \in Slots :
          LET q == rq'[r]
          IN /\ (Free(r) /\ q.op = "delete" /\ Outsider(q, clusters)) =>
                   /\ Finished(q) /\ q.status = 403
                   /\ q.ncmd = 0 /\ q.nwrite = 0
                   /\ q.todo = <<>> /\ q.stask = EmptyMap /\ q.ntask = EmptyMap
                   /\ UNCHANGED store
             /\ (Free(r) /\ q.op \in {"update", "grant", "revoke"} /\ q.user = Admin) =>
                   q.status # 403]_vars

C36_Witness ==
    \E r \in Slots :
        LET q == rq[r]
        IN /\ Finished(q) /\ q.status = 403
           /\ Outsider(q, clusters)
           /\ q.user = Admin
           /\ q.name = ClusterA
           /\ \E i \in instances : i.cluster = ClusterA
           /\ \E x \in secrets : x.cluster = ClusterA

----------------------------------------------------------------------------
(* C37: verifyCluster writes nothing: whatever it answers, the clusters,   *)
(* instances, secrets, grants, permissions and locations and the           *)
(* reachability cache are as before, also when its ping found the cluster  *)
(* otherwise than the cache says.                                          *)
C37_VerifyReadsOnly ==
    [][\A r \in Slots :
          (rq'[r] # rq[r] /\ rq'[r].op = "verify") =>
             (UNCHANGED store /\ rq'[r].nwrite = 0 /\ ~rq'[r].fault)]_vars

C37_Witness ==
    \E r \in Checks :
        LET q == rq[r]
        IN /\ q.body.status = "Unreachable"
           /\ ~internalPingCluster(q.probe.status, q.probe.names)
           /\ q.cluster \in DOMAIN reach
           /\ reach[q.cluster] = TRUE

----------------------------------------------------------------------------
(* Repairs on their own: the stores and the clusters of the consistency    *)
(* checks, asked by the admin, by a member of the owning group and by      *)
(* nobody.                                                                 *)

RepairTokens == {TokenOf(Admin), TokenOf(Alice), NoToken}
RepairRefs == {ClusterA, NameN1, UnknownRef}

NextRepair ==
    \E r \in Serial :
        \/ Reply(r)
        \/ RepairCluster(r, RepairTokens, RepairRefs, VerifyObservations)
        \/ CheckInstances(r)
        \/ CheckSecrets(r)

SpecRepair == InitVerify /\ [][NextRepair]_vars

(* C38: repairCluster answers 403 to anyone but an admin, 404 to an admin  *)
(* for a cluster that does not exist, and otherwise 200 after the commands *)
(* of the consistency check and no other; whatever the check found, the    *)
(* store is unchanged and nothing is written.                              *)
C38_RepairChangesNothing ==
    [][\A r \in Slots :
          LET q == rq'[r]
          IN /\ (rq'[r] # rq[r] /\ q.op = "repair") =>
                   (UNCHANGED store /\ q.nwrite = 0 /\ ~q.fault)
             /\ Answers(r, "repair") =>
                   /\ q.status = IF q.user = NoUser \/ ~IsAdmin(q.user) THEN 403
                                 ELSE IF getCluster(clusters, q.name) = NoCluster THEN 404
                                 ELSE 200
                   /\ q.status # 200 => q.ncmd = 0
                   /\ q.status = 200 =>
                         /\ q.check.status \in {"Unreachable", "HelmFailure",
                                                "Inconsistent", "Consistent"}
                         /\ q.ncmd = q.check.ncmd]_vars

C38_Witness ==
    \E r \in Slots :
        LET q == rq[r]
        IN /\ Finished(q) /\ q.op = "repair" /\ q.status = 200
           /\ q.user = Admin
           /\ q.check.status = "Inconsistent"
           /\ q.check.missingInstances = {InstanceName(2)}
           /\ q.check.unexpectedInstances = {StrayRelease}
           /\ \E i \in instances : i.cluster = ClusterA /\ i.name = InstanceName(2)

----------------------------------------------------------------------------
(* test/DBServer.cpp: the table of reserved ports, the launcher child and  *)
(* the handlers of the routes. Handlers run one in each worker and take    *)
(* their steps in any order; a step is one operation on the table, one     *)
(* lock acquisition, one send or one receive.                              *)

chunk_size == 512
HelmPort == 8879
MaxNamespaces == 2

(* What the launcher can answer: the pid of a child, 0 when none started;  *)
(* the size of the kubeconfig of a namespace, 0 when its creation failed.  *)
Pids == {NoPid, 4711}
ConfigSizes == {0, 512, 700}

RECURSIVE Digits(_)
Digits(n) == IF n < 10 THEN 1 ELSE 1 + Digits(n \div 10)

(* How a piece of a kubeconfig can begin. The first piece begins with      *)
(* `apiVersion` (line 151); a later piece is config.substr(sent, 512) and  *)
(* begins wherever the cut at a multiple of chunk_size falls: in a name,   *)
(* in the indentation of a line, in the base64 text of the certificate or  *)
(* of the token. One head stands for each thing std::stoul can make of     *)
(* such a piece: it throws, or it returns a positive number, zero, or a    *)
(* negated number, after white space or not.                               *)
FirstPieceHead == <<"a", "p", "i">>
LaterPieceHeads ==
    {<<"a", "b">>, <<"1", "2", "a", "b">>, <<"0", "a">>, <<"-", "1", "\n">>,
     <<" ", VerticalTab, "7">>}

(* A datagram: std::to_string of a number, or a piece of a kubeconfig.     *)
(* `numeric` says that std::stoul of it returns and `val` what it returns: *)
(* the number at its head, whatever follows. The history field `for`       *)
(* names the handler whose command it answers.                             *)
Number(val, h) ==
    [kind |-> "number", numeric |-> TRUE, val |-> val, len |-> Digits(val), for |-> h]
Chunk(len, head, h) ==
    [kind |-> "text", numeric |-> ~stoulThrows(head),
     val |-> IF stoulThrows(head) THEN 0 ELSE stoul(head), len |-> len, for |-> h]
Command(child, arg, h) == [child |-> child, arg |-> arg, from |-> h]

(* cuckoohash_map<unsigned int, ProcessHandle>: upsert and erase.          *)
Entry(port, handle) == [port |-> port, handle |-> handle]
Reserved(t) == {e.port : e \in t}
erase(t, port) == {e \in t : e.port # port}
(* upsert(port, [&](const ProcessHandle&){ success=false; }, ProcessHandle{}) *)
upsertReserve(t, port) ==
    IF port \in Reserved(t) THEN t ELSE t \cup {Entry(port, NoPid)}
(* upsert(port, [&](ProcessHandle& dummy){ dummy=std::move(dyn); }, ProcessHandle{}) *)
upsertHandle(t, port, dyn) ==
    IF port \in Reserved(t) THEN erase(t, port) \cup {Entry(port, dyn)}
    ELSE t \cup {Entry(port, NoPid)}

Released(res, port) == [res EXCEPT ![port] = 0]
Unlocked(lock, h) == IF lock = h THEN NoOwner ELSE lock

(* GET /port/allocate                                                      *)
GetPort(h) ==
    /\ th[h].pc = "idle"
    /\ th' = [th EXCEPT ![h] = [Resting EXCEPT !.pc = "allocate", !.op = "getPort",
                                               !.port = minPort]]
    /\ UNCHANGED <<soManyDynamos, helmLock, launcherLock, helmHandle, namespaceIndex,
                   parent_output_socket, parent_input_socket, launcher, reservations>>
    /\ UNCHANGED <<store, rq>>

(* A variant of one turn of allocatePort's loop whose upsert never reports *)
(* that the port is taken.                                                 *)
AllocatePortBlind(h) ==
    /\ th[h].pc = "allocate"
    /\ LET port == th[h].port
       IN /\ soManyDynamos' = upsertReserve(soManyDynamos, port)
          /\ reservations' = [reservations EXCEPT ![port] = @ + 1]
          /\ th' = [th EXCEPT ![h] =
                       IF @.op = "getPort"
                       THEN [@ EXCEPT !.pc = "done", !.status = 200, !.body = port]
                       ELSE [@ EXCEPT !.pc = "d_lock"]]
    /\ UNCHANGED <<helmLock, launcherLock, helmHandle, namespaceIndex,
                   parent_output_socket, parent_input_socket, launcher>>
    /\ UNCHANGED <<store, rq>>

(* One turn of allocatePort's loop: the upsert reserves the port or finds  *)
(* it taken, and then the next port is tried, from minPort again after the *)
(* last one.                                                               *)
AllocatePort(h) ==
    /\ th[h].pc = "allocate"
    /\ LET port == th[h].port
           success == port \notin Reserved(soManyDynamos)
       IN /\ soManyDynamos' = upsertReserve(soManyDynamos, port)
          /\ reservations' = IF success THEN [reservations EXCEPT ![port] = @ + 1]
                             ELSE reservations
          /\ th' = [th EXCEPT ![h] =
                       IF ~success
                       THEN [@ EXCEPT !.port = IF port + 1 = maxPort THEN minPort ELSE port + 1]
                       ELSE IF @.op = "getPort"
                       THEN [@ EXCEPT !.pc = "done", !.status = 200, !.body = port]
                       ELSE [@ EXCEPT !.pc = "d_lock"]]
    /\ UNCHANGED <<helmLock, launcherLock, helmHandle, namespaceIndex,
                   parent_output_socket, parent_input_socket, launcher>>
    /\ UNCHANGED <<store, rq>>

(* DELETE /port/<int>                                                      *)
FreePort(h, ports) ==
    /\ th[h].pc = "idle"
    /\ \E port \in ports :
        /\ soManyDynamos' = erase(soManyDynamos, port)
        /\ reservations' = Released(reservations, port)
        /\ th' = [th EXCEPT ![h] = [Resting EXCEPT !.pc = "done", !.op = "freePort",
                                                   !.port = port, !.status = 200]]
        /\ UNCHANGED <<helmLock, launcherLock, helmHandle, namespaceIndex,
                       parent_output_socket, parent_input_socket, launcher>>
        /\ UNCHANGED <<store, rq>>

(* DELETE /dynamo/<int>                                                    *)
Remove(h, ports) ==
    /\ th[h].pc = "idle"
    /\ \E port \in ports :
        /\ soManyDynamos' = erase(soManyDynamos, port)
        /\ reservations' = Released(reservations, port)
        /\ th' = [th EXCEPT ![h] = [Resting EXCEPT !.pc = "done", !.op = "remove",
                                                   !.port = port, !.status = 200]]
        /\ UNCHANGED <<helmLock, launcherLock, helmHandle, namespaceIndex,
                       parent_output_socket, parent_input_socket, launcher>>
        /\ UNCHANGED <<store, rq>>

(* GET /dynamo/create: the test of launcher.done(), then allocatePort. The *)
(* launcher's loop has no exit, so it has ended only if it was killed.     *)
Create(h) ==
    /\ th[h].pc = "idle"
    /\ th' = [th EXCEPT ![h] =
                 IF launcher.pc = "ended"
                 THEN [Resting EXCEPT !.pc = "done", !.op = "create", !.status = 500]
                 ELSE [Resting EXCEPT !.pc = "allocate", !.op = "create", !.port = minPort]]
    /\ UNCHANGED <<soManyDynamos, helmLock, launcherLock, helmHandle, namespaceIndex,
                   parent_output_socket, parent_input_socket, launcher, reservations>>
    /\ UNCHANGED <<store, rq>>

AfterLock(pc) == IF pc = "d_lock" THEN "d_send" ELSE IF pc = "h_lock2" THEN "h_send" ELSE "n_send"

(* A variant of the three handlers that goes on to the exchange without    *)
(* taking launcherLock.                                                    *)
LockLauncherSkipped(h) ==
    /\ th[h].pc \in {"d_lock", "h_lock2", "n_lock"}
    /\ th' = [th EXCEPT ![h].pc = AfterLock(@)]
    /\ UNCHANGED <<soManyDynamos, helmLock, launcherLock, helmHandle, namespaceIndex,
                   parent_output_socket, parent_input_socket, launcher, reservations>>
    /\ UNCHANGED <<store, rq>>

(* std::lock_guard<std::mutex> lock(launcherLock) in runDynamo, startHelm  *)
(* and allocateNamespace: the handler waits until the mutex is free.       *)
LockLauncher(h) ==
    /\ th[h].pc \in {"d_lock", "h_lock2", "n_lock"}
    /\ launcherLock = NoOwner
    /\ launcherLock' = h
    /\ th' = [th EXCEPT ![h].pc = AfterLock(@)]
    /\ UNCHANGED <<soManyDynamos, helmLock, helmHandle, namespaceIndex,
                   parent_output_socket, parent_input_socket, launcher, reservations>>
    /\ UNCHANGED <<store, rq>>

(* runDynamo: the command "dynamo <port>" is sent.                         *)
RunDynamoSend(h) ==
    /\ th[h].pc = "d_send"
    /\ parent_output_socket' = Append(parent_output_socket, Command("dynamo", th[h].port, h))
    /\ th' = [th EXCEPT ![h].pc = "d_recv"]
    /\ UNCHANGED <<soManyDynamos, helmLock, launcherLock, helmHandle, namespaceIndex,
                   parent_input_socket, launcher, reservations>>
    /\ UNCHANGED <<store, rq>>

(* runDynamo: one datagram is received and read as a pid; the lock guard   *)
(* ends with the function. std::stoul throws on a datagram that does not   *)
(* begin with a number, and the request is answered 500.                   *)
RunDynamoReceive(h) ==
    /\ th[h].pc = "d_recv"
    /\ parent_input_socket # <<>>
    /\ LET m == Head(parent_input_socket)
       IN th' = [th EXCEPT ![h] =
                    IF m.numeric
                    THEN [@ EXCEPT !.pc = "c_store", !.dyn = m.val, !.got = Append(@, m)]
                    ELSE [@ EXCEPT !.pc = "done", !.status = 500, !.got = Append(@, m)]]
    /\ parent_input_socket' = Tail(parent_input_socket)
    /\ launcherLock' = Unlocked(launcherLock, h)
    /\ UNCHANGED <<soManyDynamos, helmLock, helmHandle, namespaceIndex,
                   parent_output_socket, launcher, reservations>>
    /\ UNCHANGED <<store, rq>>

(* create after runDynamo: without a process the port is freed and the     *)
(* answer is 500; otherwise the handle replaces the dummy in the table.    *)
CreateStore(h) ==
    /\ th[h].pc = "c_store"
    /\ LET port == th[h].port
           dyn == th[h].dyn
       IN IF dyn = NoPid
          THEN /\ soManyDynamos' = erase(soManyDynamos, port)
               /\ reservations' = Released(reservations, port)
               /\ th' = [th EXCEPT ![h] = [@ EXCEPT !.pc = "done", !.status = 500]]
          ELSE /\ soManyDynamos' = upsertHandle(soManyDynamos, port, dyn)
               /\ reservations' = reservations
               /\ th' = [th EXCEPT ![h] = [@ EXCEPT !.pc = "done", !.status = 200,
                                                    !.body = port]]
    /\ UNCHANGED <<helmLock, launcherLock, helmHandle, namespaceIndex,
                   parent_output_socket, parent_input_socket, launcher>>
    /\ UNCHANGED <<store, rq>>

(* GET /helm                                                               *)
StartHelm(h) ==
    /\ th[h].pc = "idle"
    /\ th' = [th EXCEPT ![h] = [Resting EXCEPT !.pc = "h_lock", !.op = "startHelm"]]
    /\ UNCHANGED <<soManyDynamos, helmLock, launcherLock, helmHandle, namespaceIndex,
                   parent_output_socket, parent_input_socket, launcher, reservations>>
    /\ UNCHANGED <<store, rq>>

(* startHelm: helmLock is taken; with a helm handle the answer is 200 and  *)
(* the lock is released at once.                                           *)
StartHelmLock(h) ==
    /\ th[h].pc = "h_lock"
    /\ helmLock = NoOwner
    /\ IF helmHandle # NoPid
       THEN /\ th' = [th EXCEPT ![h] = [@ EXCEPT !.pc = "done", !.status = 200]]
            /\ helmLock' = helmLock
       ELSE /\ th' = [th EXCEPT ![h].pc = "h_lock2"]
            /\ helmLock' = h
    /\ UNCHANGED <<soManyDynamos, launcherLock, helmHandle, namespaceIndex,
                   parent_output_socket, parent_input_socket, launcher, reservations>>
    /\ UNCHANGED <<store, rq>>

(* startHelm: the command "helm 8879" is sent.                             *)
StartHelmSend(h) ==
    /\ th[h].pc = "h_send"
    /\ parent_output_socket' = Append(parent_output_socket, Command("helm", HelmPort, h))
    /\ th' = [th EXCEPT ![h].pc = "h_recv"]
    /\ UNCHANGED <<soManyDynamos, helmLock, launcherLock, helmHandle, namespaceIndex,
                   parent_input_socket, launcher, reservations>>
    /\ UNCHANGED <<store, rq>>

(* startHelm: one datagram is received and kept as the helm handle; both   *)
(* lock guards end with the function.                                      *)
StartHelmReceive(h) ==
    /\ th[h].pc = "h_recv"
    /\ parent_input_socket # <<>>
    /\ LET m == Head(parent_input_socket)
       IN /\ th' = [th EXCEPT ![h] =
                       IF m.numeric
                       THEN [@ EXCEPT !.pc = "done", !.status = 200, !.got = Append(@, m)]
                       ELSE [@ EXCEPT !.pc = "done", !.status = 500, !.got = Append(@, m)]]
          /\ helmHandle' = IF m.numeric THEN m.val ELSE helmHandle
    /\ parent_input_socket' = Tail(parent_input_socket)
    /\ launcherLock' = Unlocked(launcherLock, h)
    /\ helmLock' = Unlocked(helmLock, h)
    /\ UNCHANGED <<soManyDynamos, namespaceIndex, parent_output_socket, launcher,
                   reservations>>
    /\ UNCHANGED <<store, rq>>

(* DELETE /helm: under helmLock the handle is replaced by an empty one.    *)
StopHelm(h) ==
    /\ th[h].pc = "idle"
    /\ helmLock = NoOwner
    /\ helmHandle' = NoPid
    /\ th' = [th EXCEPT ![h] = [Resting EXCEPT !.pc = "done", !.op = "stopHelm",
                                               !.status = 200]]
    /\ UNCHANGED <<soManyDynamos, helmLock, launcherLock, namespaceIndex,
                   parent_output_socket, parent_input_socket, launcher, reservations>>
    /\ UNCHANGED <<store, rq>>

(* GET /namespace                                                          *)
AllocateNamespace(h) ==
    /\ th[h].pc = "idle"
    /\ namespaceIndex < MaxNamespaces
    /\ th' = [th EXCEPT ![h] = [Resting EXCEPT !.pc = "n_lock", !.op = "allocateNamespace"]]
    /\ UNCHANGED <<soManyDynamos, helmLock, launcherLock, helmHandle, namespaceIndex,
                   parent_output_socket, parent_input_socket, launcher, reservations>>
    /\ UNCHANGED <<store, rq>>

(* allocateNamespace: the command "namespace <index>" is sent and the      *)
(* index counted up.                                                       *)
AllocateNamespaceSend(h) ==
    /\ th[h].pc = "n_send"
    /\ parent_output_socket' =
           Append(parent_output_socket, Command("namespace", namespaceIndex, h))
    /\ namespaceIndex' = namespaceIndex + 1
    /\ th' = [th EXCEPT ![h].pc = "n_size"]
    /\ UNCHANGED <<soManyDynamos, helmLock, launcherLock, helmHandle,
                   parent_input_socket, launcher, reservations>>
    /\ UNCHANGED <<store, rq>>

(* config.size() < msgSize of line 410, between a size and the unsigned    *)
(* long that stoul returned: a negated number is an unsigned long of 2^63  *)
(* or more, which no size reaches.                                         *)
SizeBelow(size, msgSize) == msgSize < 0 \/ size < msgSize

(* allocateNamespace: the number at the head of the first datagram is the  *)
(* size of the kubeconfig; while less has arrived, datagrams are received. *)
AllocateNamespaceSize(h) ==
    /\ th[h].pc = "n_size"
    /\ parent_input_socket # <<>>
    /\ LET m == Head(parent_input_socket)
           more == m.numeric /\ SizeBelow(0, m.val)
       IN /\ th' = [th EXCEPT ![h] =
                       IF ~m.numeric
                       THEN [@ EXCEPT !.pc = "done", !.status = 500, !.got = Append(@, m)]
                       ELSE IF more
                       THEN [@ EXCEPT !.pc = "n_chunk", !.msgSize = m.val, !.got = Append(@, m)]
                       ELSE [@ EXCEPT !.pc = "done", !.status = 200, !.msgSize = m.val,
                                      !.body = 0, !.got = Append(@, m)]]
          /\ launcherLock' = IF more THEN launcherLock ELSE Unlocked(launcherLock, h)
    /\ parent_input_socket' = Tail(parent_input_socket)
    /\ UNCHANGED <<soManyDynamos, helmLock, helmHandle, namespaceIndex,
                   parent_output_socket, launcher, reservations>>
    /\ UNCHANGED <<store, rq>>

(* allocateNamespace: one more datagram is appended to config; with the    *)
(* announced size reached the answer is 200 with the kubeconfig.           *)
AllocateNamespaceChunk(h) ==
    /\ th[h].pc = "n_chunk"
    /\ parent_input_socket # <<>>
    /\ LET m == Head(parent_input_socket)
           config == th[h].config + m.len
           more == SizeBelow(config, th[h].msgSize)
       IN /\ th' = [th EXCEPT ![h] =
                       IF more
                       THEN [@ EXCEPT !.config = config, !.got = Append(@, m)]
                       ELSE [@ EXCEPT !.pc = "done", !.status = 200, !.config = config,
                                      !.body = config, !.got = Append(@, m)]]
          /\ launcherLock' = IF more THEN launcherLock ELSE Unlocked(launcherLock, h)
    /\ parent_input_socket' = Tail(parent_input_socket)
    /\ UNCHANGED <<soManyDynamos, helmLock, helmHandle, namespaceIndex,
                   parent_output_socket, launcher, reservations>>
    /\ UNCHANGED <<store, rq>>

(* Launcher::operator(), line 199: one command is received. The launcher   *)
(* then starts the process or runs allocateNamespace, which waits for      *)
(* kubectl; until it sends, nothing is on either socket.                   *)
LauncherReceive ==
    /\ launcher.pc = "wait"
    /\ parent_output_socket # <<>>
    /\ LET c == Head(parent_output_socket)
       IN launcher' = [LauncherWaiting EXCEPT
                          !.pc = IF c.child \in {"dynamo", "helm"} THEN "launch"
                                 ELSE "namespace",
                          !.for = c.from]
    /\ parent_output_socket' = Tail(parent_output_socket)
    /\ UNCHANGED <<soManyDynamos, helmLock, launcherLock, helmHandle, namespaceIndex,
                   parent_input_socket, th, reservations>>
    /\ UNCHANGED <<store, rq>>

(* Launcher::operator(), lines 219 and 227: for dynamo and helm the pid of *)
(* the started process is sent back; for namespace the size of the         *)
(* kubeconfig, and its pieces follow.                                      *)
LauncherSend(pids, sizes) ==
    /\ launcher.pc \in {"launch", "namespace"}
    /\ IF launcher.pc = "launch"
       THEN \E pid \in pids :
               /\ parent_input_socket' = Append(parent_input_socket,
                                                Number(pid, launcher.for))
               /\ launcher' = LauncherWaiting
       ELSE \E size \in sizes :
               /\ parent_input_socket' = Append(parent_input_socket,
                                                Number(size, launcher.for))
               /\ launcher' = IF 0 < size
                              THEN [pc |-> "chunks", config |-> size, sent |-> 0,
                                    for |-> launcher.for]
                              ELSE LauncherWaiting
    /\ UNCHANGED <<soManyDynamos, helmLock, launcherLock, helmHandle, namespaceIndex,
                   parent_output_socket, th, reservations>>
    /\ UNCHANGED <<store, rq>>

(* Launcher::operator(): config.substr(sent, chunk_size) is sent.          *)
LauncherSendChunk ==
    /\ launcher.pc = "chunks"
    /\ LET left == launcher.config - launcher.sent
           len == IF left < chunk_size THEN left ELSE chunk_size
           sent == launcher.sent + chunk_size
           heads == IF launcher.sent = 0 THEN {FirstPieceHead} ELSE LaterPieceHeads
       IN /\ \E head \in heads :
                parent_input_socket' =
                    Append(parent_input_socket, Chunk(len, head, launcher.for))
          /\ launcher' = IF sent < launcher.config THEN [launcher EXCEPT !.sent = sent]
                         ELSE LauncherWaiting
    /\ UNCHANGED <<soManyDynamos, helmLock, launcherLock, helmHandle, namespaceIndex,
                   parent_output_socket, th, reservations>>
    /\ UNCHANGED <<store, rq>>

(* The response leaves and the worker is free again.                       *)
Respond(h) ==
    /\ th[h].pc = "done"
    /\ th' = [th EXCEPT ![h] = Resting]
    /\ UNCHANGED <<soManyDynamos, helmLock, launcherLock, helmHandle, namespaceIndex,
                   parent_output_socket, parent_input_socket, launcher, reservations>>
    /\ UNCHANGED <<store, rq>>

InitTestServer ==
    /\ clusters = <<>>
    /\ instances = {}
    /\ secrets = {}
    /\ access = {}
    /\ apps = {}
    /\ reach = <<>>
    /\ locations = <<>>
    /\ rq = NoRequests
    /\ InitDBServer

(* The routes that talk to the launcher.                                   *)
NextLauncher ==
    \/ \E h \in Workers :
        \/ Create(h)
        \/ AllocatePort(h)
        \/ LockLauncher(h)
        \/ RunDynamoSend(h)
        \/ RunDynamoReceive(h)
        \/ CreateStore(h)
        \/ Remove(h, Ports)
        \/ StartHelm(h)
        \/ StartHelmLock(h)
        \/ StartHelmSend(h)
        \/ StartHelmReceive(h)
        \/ StopHelm(h)
        \/ AllocateNamespace(h)
        \/ AllocateNamespaceSend(h)
        \/ AllocateNamespaceSize(h)
        \/ AllocateNamespaceChunk(h)
        \/ Respond(h)
    \/ LauncherReceive
    \/ LauncherSend(Pids, ConfigSizes)
    \/ LauncherSendChunk

SpecLauncher == InitTestServer /\ [][NextLauncher]_vars

(* The routes that reserve and release ports.                              *)
NextPorts ==
    \/ \E h \in Workers :
        \/ GetPort(h)
        \/ FreePort(h, Ports)
        \/ Create(h)
        \/ AllocatePort(h)
        \/ LockLauncher(h)
        \/ RunDynamoSend(h)
        \/ RunDynamoReceive(h)
        \/ CreateStore(h)
        \/ Remove(h, Ports)
        \/ Respond(h)
    \/ LauncherReceive
    \/ LauncherSend(Pids, ConfigSizes)

SpecPorts == InitTestServer /\ [][NextPorts]_vars

(* The positions of a handler between sending its command and receiving    *)
(* the last datagram of the reply.                                         *)
InExchange(w) == w.pc \in {"d_send", "d_recv", "h_send", "h_recv", "n_send", "n_size", "n_chunk"}

(* The datagrams a handler has received are the whole reply to its own     *)
(* command: one pid, or the size and the pieces that add up to it.         *)
RECURSIVE TextLength(_)
TextLength(ms) == IF ms = <<>> THEN 0 ELSE Head(ms).len + TextLength(Tail(ms))

WholeReply(h, w) ==
    /\ w.got # <<>>
    /\ \A i \in DOMAIN w.got : w.got[i].for = h
    /\ Head(w.got).kind = "number"
    /\ \A i \in 2..Len(w.got) : w.got[i].kind = "text"
    /\ w.op \in {"create", "startHelm"} => Len(w.got) = 1
    /\ w.op = "allocateNamespace" =>
          /\ TextLength(Tail(w.got)) = Head(w.got).val
          /\ w.body = Head(w.got).val
          /\ Len(w.got) = 1 + ((Head(w.got).val + chunk_size - 1) \div chunk_size)

(* C39: a handler is between the send of its command and the end of its    *)
(* reply only while it holds launcherLock; whatever is on the two sockets  *)
(* or being sent by the launcher belongs to the holder of the lock, and    *)
(* nothing is left there when the lock is free; the datagrams a handler    *)
(* has received answer its own command, and at the end of the exchange     *)
(* they are the whole reply.                                               *)
C39_ExchangesUnderLock ==
    /\ \A h \in Workers : InExchange(th[h]) => launcherLock = h
    /\ \A i \in DOMAIN parent_output_socket : parent_output_socket[i].from = launcherLock
    /\ \A i \in DOMAIN parent_input_socket : parent_input_socket[i].for = launcherLock
    /\ launcher.pc # "wait" => launcher.for = launcherLock
    /\ Len(parent_output_socket) <= 1
    /\ launcherLock = NoOwner =>
          (parent_output_socket = <<>> /\ parent_input_socket = <<>> /\ launcher.pc = "wait")
    /\ \A h \in Workers :
          /\ \A i \in DOMAIN th[h].got : th[h].got[i].for = h
          /\ (th[h].pc = "c_store" \/ (th[h].pc = "done" /\ th[h].got # <<>>)) =>
                /\ WholeReply(h, th[h])
                /\ th[h].status = 500 => (th[h].op = "create" /\ th[h].dyn = NoPid)
          /\ (th[h].pc = "done" /\ th[h].op \in {"create", "allocateNamespace"}) =>
                th[h].got # <<>>

(* One handler has received the first of the two pieces of its kubeconfig  *)
(* while the other waits for the lock with a database to start.            *)
C39_Witness ==
    \E h, k \in Workers :
        /\ th[h].pc = "n_chunk"
        /\ th[h].msgSize = 700
        /\ th[h].config = chunk_size
        /\ launcherLock = h
        /\ th[k].pc = "d_lock"

(* allocatePort returns in this step of handler h.                         *)
AllocatePortReturns(h) == th[h].pc = "allocate" /\ th'[h].pc # "allocate"

(* C40: the port allocatePort returns is in no entry of the table before   *)
(* the step and in one after it, and lies in minPort..maxPort-1 (52001 to  *)
(* 52999 with the source's maxPort); no port has had more than one return  *)
(* of allocatePort since it was last erased, and a port with one is in the *)
(* table; the ports in answers lie in the range; and when create gets no   *)
(* process, it answers 500 and the port is in no entry afterwards.         *)
C40_PortsReservedOnce ==
    /\ [](/\ \A p \in Ports :
                /\ reservations[p] <= 1
                /\ reservations[p] = 1 => p \in Reserved(soManyDynamos)
          /\ Reserved(soManyDynamos) \subseteq Ports
          /\ \A e, f \in soManyDynamos : e.port = f.port => e = f
          /\ \A h \in Workers :
                (th[h].pc = "done" /\ th[h].op \in {"getPort", "create"}
                 /\ th[h].status = 200) => th[h].body \in minPort..(maxPort - 1))
    /\ [][\A h \in Workers :
             /\ AllocatePortReturns(h) =>
                   /\ th[h].port \notin Reserved(soManyDynamos)
                   /\ Entry(th[h].port, NoPid) \in soManyDynamos'
                   /\ th[h].port \in minPort..(maxPort - 1)
                   /\ th'[h].port = th[h].port
             /\ (th[h].pc = "c_store" /\ th[h].dyn = NoPid /\ th'[h] # th[h]) =>
                   /\ th'[h].pc = "done" /\ th'[h].status = 500
                   /\ th[h].port \notin Reserved(soManyDynamos')
                   /\ reservations'[th[h].port] = 0]_vars

(* A create whose database did not start has answered 500 and its port,    *)
(* the first, is free again; meanwhile the other handler was given the     *)
(* second port.                                                            *)
C40_Witness ==
    \E h, k \in Workers :
        /\ th[h].pc = "done" /\ th[h].op = "create" /\ th[h].status = 500
        /\ th[h].port = minPort
        /\ minPort \notin Reserved(soManyDynamos)
        /\ th[k].pc = "done" /\ th[k].op = "getPort" /\ th[k].body = minPort + 1

====
